---- MODULE Spec2Model ----
(***************************************************************************)
(* A model of the pyairbnb helper scripts: the grid generation of          *)
(* get_listings.py / scrape_airbnb.py and the record flattening of         *)
(* converter.py / get_listings.py.                                         *)
(*                                                                         *)
(* Numbers.  The scripts compute with Python floats.  The model computes   *)
(* with exact rationals [n, d] in lowest terms: +, -, * and / are the      *)
(* operations of the source, in the order the source applies them, and     *)
(* IEEE-754 rounding is not modelled.  (On the configured box the double   *)
(* results tile the box exactly as the rational ones do.)                  *)
(*                                                                         *)
(* Values.  A Python value is a tagged record: None is [t |-> "null"], an  *)
(* int is [t |-> "int", v |-> 3], a str is [t |-> "str", v |-> "a"], a     *)
(* list is [t |-> "list", v |-> <<...>>] and a dict is                     *)
(* [t |-> "dict", v |-> f] with f a function from its keys to values.      *)
(***************************************************************************)
EXTENDS Integers, Sequences, FiniteSets, TLC

VARIABLES
    script,          \* which script runs: "get_listings" or "scrape_airbnb"
    sw_lat_orig,     \* configuration: the original box
    sw_long_orig,
    ne_lat_orig,
    ne_long_orig,
    grid_size,       \* configuration: the grid size
    lat_step,        \* get_listings.main: lat_step, long_step
    long_step,
    i,               \* the outer loop variable of the grid generation
    j,               \* the inner loop variable of the grid generation
    bounding_boxes,  \* the box list
    pc,              \* position of the script
    error,           \* the uncaught exception that ended the script, or "none"
    listing,         \* process_listing_data: its argument
    result,          \* process_listing_data: what the call produced
    all_listings,    \* the de-duplication dict, as its items in insertion order
    search_results,  \* what the last search call returned (<<>> while unbound)
    merge_pos,       \* position of the merge loop in search_results (from 1)
    calls,           \* external calls made so far (search_all, get_details)
    sleeps,          \* time.sleep calls made so far
    unique_listings, \* list(all_listings.values()); the input of a conversion
    files,           \* the file system: file name -> content
    reported,        \* the error messages printed so far
    urls,            \* the bulk scripts' URL list
    listing_details  \* the record a detail-report exporter is given

vars == <<script, sw_lat_orig, sw_long_orig, ne_lat_orig, ne_long_orig, grid_size,
          lat_step, long_step, i, j, bounding_boxes, pc, error, listing, result,
          all_listings, search_results, merge_pos, calls, sleeps, unique_listings, files,
          reported, urls, listing_details>>

gridVars == <<script, sw_lat_orig, sw_long_orig, ne_lat_orig, ne_long_orig, grid_size,
              lat_step, long_step, i, j, bounding_boxes, pc, error>>

flattenVars == <<listing, result>>

runVars == <<all_listings, search_results, merge_pos, calls, sleeps, unique_listings, files,
             reported, urls, listing_details>>

\* ------------------------------------------------------------------ bounds

\* Input boxes have integer corners 0..MaxCoord (plus the configured box).
MaxCoord == 2

\* Grid sizes range over -1..MaxGrid.
MaxGrid == 4

\* ------------------------------------------------------- exact arithmetic

RECURSIVE GCD(_, _)
GCD(a, b) == IF b = 0 THEN a ELSE GCD(b, a % b)

Abs(a) == IF a < 0 THEN 0 - a ELSE a

LCM(a, b) == (a \div GCD(a, b)) * b

\* The rational n/d (d # 0) in lowest terms with a positive denominator.
Rat(n, d) ==
    LET g == GCD(Abs(n), Abs(d))
        s == IF d < 0 THEN 0 - 1 ELSE 1
    IN  [n |-> s * (n \div g), d |-> s * (d \div g)]

RAdd(a, b) ==
    LET m == LCM(a.d, b.d)
    IN  Rat(a.n * (m \div a.d) + b.n * (m \div b.d), m)

RSub(a, b) ==
    LET m == LCM(a.d, b.d)
    IN  Rat(a.n * (m \div a.d) - b.n * (m \div b.d), m)

\* k * a for an int k
RMulInt(k, a) == Rat(k * a.n, a.d)

\* a / k for an int k # 0
RDivInt(a, k) == Rat(a.n, a.d * k)

RMul(a, b) == Rat(a.n * b.n, a.d * b.d)

RLt(a, b) ==
    LET m == LCM(a.d, b.d)
    IN  a.n * (m \div a.d) < b.n * (m \div b.d)

RLe(a, b) == a = b \/ RLt(a, b)

\* ------------------------------------------------------------ configuration

\* get_listings.py 10-13, scrape_airbnb.py 7-10: 28.97, 41.03, 28.98, 41.04
ConfiguredBox ==
    [sw_long |-> Rat(2897, 100), sw_lat |-> Rat(4103, 100),
     ne_long |-> Rat(2898, 100), ne_lat |-> Rat(4104, 100)]

\* get_listings.py 15, scrape_airbnb.py 12
ConfiguredGridSize == 4

\* `if i == 3 and j == 1`: the cell that is subdivided
dense_i == 3

dense_j == 1

\* sub_grid_size = 2
sub_grid_size == 2

Coords == {Rat(k, 1) : k \in 0..MaxCoord}

Boxes ==
    {ConfiguredBox} \cup
    [sw_long : Coords, sw_lat : Coords, ne_long : Coords, ne_lat : Coords]

GridSizes == (0 - 1)..MaxGrid

Scripts == {"get_listings", "scrape_airbnb"}

\* ---------------------------------------------------------- grid generation

\* get_listings.main 104-105.  The subtraction and the division are the
\* source's; grid_size = 0 raises ZeroDivisionError (action ComputeStepsFails).
LatStep == RDivInt(RSub(ne_lat_orig, sw_lat_orig), grid_size)

LongStep == RDivInt(RSub(ne_long_orig, sw_long_orig), grid_size)

\* sw_lat with the longitude extent in place of the latitude extent.
sw_lat_LongStep ==
    IF script = "get_listings"
    THEN RAdd(sw_lat_orig, RMulInt(i, long_step))
    ELSE RAdd(sw_lat_orig, RDivInt(RMulInt(i, RSub(ne_long_orig, sw_long_orig)), grid_size))

\* The corners of cell (i, j).  get_listings.main 109-112 adds a multiple of
\* the step; scrape_airbnb.py 22-25 and 43-46 computes
\* sw_lat_orig + i * (ne_lat_orig - sw_lat_orig) / grid_size inline.
sw_lat ==
    IF script = "get_listings"
    THEN RAdd(sw_lat_orig, RMulInt(i, lat_step))
    ELSE RAdd(sw_lat_orig, RDivInt(RMulInt(i, RSub(ne_lat_orig, sw_lat_orig)), grid_size))

sw_long ==
    IF script = "get_listings"
    THEN RAdd(sw_long_orig, RMulInt(j, long_step))
    ELSE RAdd(sw_long_orig, RDivInt(RMulInt(j, RSub(ne_long_orig, sw_long_orig)), grid_size))

ne_lat ==
    IF script = "get_listings"
    THEN RAdd(sw_lat_orig, RMulInt(i + 1, lat_step))
    ELSE RAdd(sw_lat_orig, RDivInt(RMulInt(i + 1, RSub(ne_lat_orig, sw_lat_orig)), grid_size))

\* ne_long with j in place of j + 1.
ne_long_NoIncrement ==
    IF script = "get_listings"
    THEN RAdd(sw_long_orig, RMulInt(j, long_step))
    ELSE RAdd(sw_long_orig, RDivInt(RMulInt(j, RSub(ne_long_orig, sw_long_orig)), grid_size))

ne_long ==
    IF script = "get_listings"
    THEN RAdd(sw_long_orig, RMulInt(j + 1, long_step))
    ELSE RAdd(sw_long_orig, RDivInt(RMulInt(j + 1, RSub(ne_long_orig, sw_long_orig)), grid_size))

\* sub_lat_step with grid_size in place of sub_grid_size.
sub_lat_step_GridSize == RDivInt(RSub(ne_lat, sw_lat), grid_size)

\* get_listings.main 117-118, scrape_airbnb.py 28-29
sub_lat_step == RDivInt(RSub(ne_lat, sw_lat), sub_grid_size)

sub_long_step == RDivInt(RSub(ne_long, sw_long), sub_grid_size)

\* CellName with the indices taken as they are (zero-based).
CellName_ZeroBased == "Area_" \o ToString(i) \o "_" \o ToString(j)

\* f"Area_{i+1}_{j+1}"
CellName == "Area_" \o ToString(i + 1) \o "_" \o ToString(j + 1)

\* get_listings.main 126: f"Area_{i+1}_{j+1}_Sub_{sub_i+1}_{sub_j+1}";
\* scrape_airbnb.py 38: f"Area_4_2_Sub_{sub_i+1}_{sub_j+1}"
SubName(sub_i, sub_j) ==
    IF script = "get_listings"
    THEN CellName \o "_Sub_" \o ToString(sub_i + 1) \o "_" \o ToString(sub_j + 1)
    ELSE "Area_4_2_Sub_" \o ToString(sub_i + 1) \o "_" \o ToString(sub_j + 1)

\* The dict appended for an undivided cell (get_listings.main 129-132).
CellBox ==
    [sw_lat |-> sw_lat, sw_long |-> sw_long, ne_lat |-> ne_lat, ne_long |-> ne_long,
     name |-> CellName]

\* The dict appended for sub-cell (sub_i, sub_j) (get_listings.main 121-127).
SubBox(sub_i, sub_j) ==
    [sw_lat  |-> RAdd(sw_lat, RMulInt(sub_i, sub_lat_step)),
     sw_long |-> RAdd(sw_long, RMulInt(sub_j, sub_long_step)),
     ne_lat  |-> RAdd(sw_lat, RMulInt(sub_i + 1, sub_lat_step)),
     ne_long |-> RAdd(sw_long, RMulInt(sub_j + 1, sub_long_step)),
     name    |-> SubName(sub_i, sub_j)]

\* The two nested sub-loops (119-120): sub_i outer, sub_j inner.
SubBoxes ==
    [k \in 1..(sub_grid_size * sub_grid_size) |->
        SubBox((k - 1) \div sub_grid_size, (k - 1) % sub_grid_size)]

\* IsDenseCell with the two indices swapped.
IsDenseCell_Swapped == i = dense_j /\ j = dense_i

\* `if i == 3 and j == 1`
IsDenseCell == i = dense_i /\ j = dense_j

\* The state before the script runs: the configuration is drawn from the
\* bounded sets, nothing is computed yet.
GridInit ==
    /\ script \in Scripts
    /\ \E b \in Boxes :
          /\ sw_lat_orig = b.sw_lat
          /\ sw_long_orig = b.sw_long
          /\ ne_lat_orig = b.ne_lat
          /\ ne_long_orig = b.ne_long
    /\ grid_size \in GridSizes
    /\ lat_step = Rat(0, 1)
    /\ long_step = Rat(0, 1)
    /\ i = 0
    /\ j = 0
    /\ bounding_boxes = <<>>
    /\ pc = "start"
    /\ error = "none"

\* get_listings.main 103-105 with grid_size # 0.
ComputeSteps ==
    /\ pc = "start"
    /\ script = "get_listings"
    /\ grid_size # 0
    /\ lat_step' = LatStep
    /\ long_step' = LongStep
    /\ bounding_boxes' = <<>>
    /\ pc' = "loop"
    /\ UNCHANGED <<script, sw_lat_orig, sw_long_orig, ne_lat_orig, ne_long_orig,
                   grid_size, i, j, error>>

\* get_listings.main 104 with grid_size = 0: the float division raises
\* ZeroDivisionError, which nothing in main catches.
ComputeStepsFails ==
    /\ pc = "start"
    /\ script = "get_listings"
    /\ grid_size = 0
    /\ bounding_boxes' = <<>>
    /\ pc' = "crashed"
    /\ error' = "ZeroDivisionError"
    /\ UNCHANGED <<script, sw_lat_orig, sw_long_orig, ne_lat_orig, ne_long_orig,
                   grid_size, lat_step, long_step, i, j>>

\* scrape_airbnb.py 15: the list is created and the loops start; the
\* divisions are inside the loop body.
StartLoop ==
    /\ pc = "start"
    /\ script = "scrape_airbnb"
    /\ bounding_boxes' = <<>>
    /\ pc' = "loop"
    /\ UNCHANGED <<script, sw_lat_orig, sw_long_orig, ne_lat_orig, ne_long_orig,
                   grid_size, lat_step, long_step, i, j, error>>

\* The loop variables after one pass of the inner loop's body.
Advance ==
    IF j + 1 < grid_size
    THEN i' = i /\ j' = j + 1
    ELSE i' = i + 1 /\ j' = 0

\* One pass of the body for an undivided cell (the else branch).
AppendCell ==
    /\ pc = "loop"
    /\ i < grid_size
    /\ ~IsDenseCell
    /\ bounding_boxes' = Append(bounding_boxes, CellBox)
    /\ Advance
    /\ UNCHANGED <<script, sw_lat_orig, sw_long_orig, ne_lat_orig, ne_long_orig,
                   grid_size, lat_step, long_step, pc, error>>

\* One pass of the body for the dense cell: the sub-cells are appended
\* instead of the cell.
AppendSubCells ==
    /\ pc = "loop"
    /\ i < grid_size
    /\ IsDenseCell
    /\ bounding_boxes' = bounding_boxes \o SubBoxes
    /\ Advance
    /\ UNCHANGED <<script, sw_lat_orig, sw_long_orig, ne_lat_orig, ne_long_orig,
                   grid_size, lat_step, long_step, pc, error>>

\* range(grid_size) is exhausted (at once when grid_size <= 0).
FinishGrid ==
    /\ pc = "loop"
    /\ i >= grid_size
    /\ pc' = "generated"
    /\ UNCHANGED <<script, sw_lat_orig, sw_long_orig, ne_lat_orig, ne_long_orig,
                   grid_size, lat_step, long_step, i, j, bounding_boxes, error>>

\* ------------------------------------------------------------ Python values

Null == [t |-> "null"]

IntVal(n) == [t |-> "int", v |-> n]

StrVal(x) == [t |-> "str", v |-> x]

ListVal(xs) == [t |-> "list", v |-> xs]

DictVal(f) == [t |-> "dict", v |-> f]

EmptyDict == DictVal(<<>>)

\* bool(x) for the types of the model
Truthy(x) ==
    CASE x.t = "null" -> FALSE
      [] x.t = "int"  -> x.v # 0
      [] x.t = "str"  -> x.v # ""
      [] x.t = "list" -> Len(x.v) > 0
      [] x.t = "dict" -> DOMAIN x.v # {}

\* d.get(key, default) for a dict d
Get(d, key, default) == IF key \in DOMAIN d.v THEN d.v[key] ELSE default

\* format(x) inside an f-string, for an int or a str
Format(x) ==
    CASE x.t = "int" -> ToString(x.v)
      [] x.t = "str" -> x.v

\* sep.join(strs) for a sequence of str
RECURSIVE Join(_, _)
Join(sep, strs) ==
    IF Len(strs) = 0 THEN ""
    ELSE IF Len(strs) = 1 THEN strs[1]
    ELSE strs[1] \o sep \o Join(sep, Tail(strs))

\* -------------------------------------------------- process_listing_data
\* converter.py 5-51; get_listings.py 23-66 is the same function.

\* price_info = listing.get('price', {})
price_info(rec) == Get(rec, "price", EmptyDict)

\* price_unit = price_info.get('unit', {})
price_unit(rec) == Get(price_info(rec), "unit", EmptyDict)

\* rating_info = listing.get('rating', {})
rating_info(rec) == Get(rec, "rating", EmptyDict)

\* room_id = listing.get('room_id')
room_id(rec) == Get(rec, "room_id", Null)

\* listing_url with `room_id is not None` in place of `room_id`.
listing_url_NotNone(rec) ==
    IF room_id(rec) # Null
    THEN "https://www.airbnb.com/rooms/" \o Format(room_id(rec))
    ELSE "N/A"

\* f"https://www.airbnb.com/rooms/{room_id}" if room_id else "N/A"
listing_url(rec) ==
    IF Truthy(room_id(rec))
    THEN "https://www.airbnb.com/rooms/" \o Format(room_id(rec))
    ELSE "N/A"

\* price_info.get('break_down', [])
break_down(rec) == Get(price_info(rec), "break_down", ListVal(<<>>))

\* [item.get('description', '') for item in price_info.get('break_down', [])]
Descriptions(rec) ==
    [k \in 1..Len(break_down(rec).v) |-> Get(break_down(rec).v[k], "description", StrVal(""))]

\* price_breakdown_desc with ", " as the separator.
price_breakdown_desc_Comma(rec) ==
    IF Truthy(Get(price_info(rec), "break_down", Null))
    THEN Join(", ", [k \in 1..Len(Descriptions(rec)) |-> Descriptions(rec)[k].v])
    ELSE ""

\* price_breakdown_desc (converter.py 28-31)
price_breakdown_desc(rec) ==
    IF Truthy(Get(price_info(rec), "break_down", Null))
    THEN Join(" | ", [k \in 1..Len(Descriptions(rec)) |-> Descriptions(rec)[k].v])
    ELSE ""

\* listing.get('images', [{}])
images(rec) == Get(rec, "images", ListVal(<<EmptyDict>>))

\* listing.get('badges', [])
badges(rec) == Get(rec, "badges", ListVal(<<>>))

\* tag in listing.get('badges', [])
HasBadge(rec, tag) == \E k \in 1..Len(badges(rec).v) : badges(rec).v[k] = StrVal(tag)

\* listing.get('coordinates', {})
coordinates(rec) == Get(rec, "coordinates", EmptyDict)

\* The exception the body raises for the dict rec, "none" if it returns.
\* The checks are in the order of evaluation of the body.
Raises(rec) ==
    CASE price_info(rec).t # "dict" -> "AttributeError"          \* line 19: .get of a non-dict
      [] /\ price_info(rec).t = "dict"
         /\ Truthy(Get(price_info(rec), "break_down", Null))
         /\ break_down(rec).t = "list"
         /\ \E k \in 1..Len(break_down(rec).v) : break_down(rec).v[k].t # "dict"
            -> "AttributeError"                                  \* line 31: item.get
      [] /\ price_info(rec).t = "dict"
         /\ Truthy(Get(price_info(rec), "break_down", Null))
         /\ break_down(rec).t = "list"
         /\ \A k \in 1..Len(break_down(rec).v) : break_down(rec).v[k].t = "dict"
         /\ \E k \in 1..Len(Descriptions(rec)) : Descriptions(rec)[k].t # "str"
            -> "TypeError"                                       \* line 31: join of a non-str
      [] /\ price_info(rec).t = "dict"
         /\ Truthy(Get(price_info(rec), "break_down", Null))
         /\ break_down(rec).t # "list"
            -> "TypeError"                                       \* line 31: not a sequence of dicts
      [] OTHER ->
         IF rating_info(rec).t # "dict" THEN "AttributeError"    \* line 39
         ELSE IF badges(rec).t # "list" THEN "TypeError"         \* line 41: in None
         ELSE IF coordinates(rec).t # "dict" THEN "AttributeError"   \* line 43
         ELSE IF price_unit(rec).t # "dict" THEN "AttributeError"    \* line 45
         ELSE IF images(rec).t # "list" THEN "TypeError"         \* line 50: None[0]
         ELSE IF Len(images(rec).v) = 0 THEN "IndexError"        \* line 50: [][0]
         ELSE IF images(rec).v[1].t # "dict" THEN "AttributeError"   \* line 50: .get
         ELSE "none"

\* The dict the body returns (converter.py 33-51).
Row(rec) ==
    [room_id                      |-> room_id(rec),
     listing_url                  |-> listing_url(rec),
     category                     |-> Get(rec, "category", Null),
     name                         |-> Get(rec, "name", Null),
     title                        |-> Get(rec, "title", Null),
     rating_value                 |-> Get(rating_info(rec), "value", Null),
     rating_review_count          |-> Get(rating_info(rec), "reviewCount", Null),
     is_superhost                 |-> HasBadge(rec, "SUPERHOST"),
     is_guest_favorite            |-> HasBadge(rec, "GUEST_FAVORITE"),
     latitude                     |-> Get(coordinates(rec), "latitude", Null),
     longitude                    |-> Get(coordinates(rec), "longitude", Null),
     price_unit_qualifier         |-> Get(price_unit(rec), "qualifier", Null),
     price_unit_currency_symbol   |-> Get(price_unit(rec), "curency_symbol", Null),
     price_unit_original_amount   |-> Get(price_unit(rec), "amount", Null),
     price_unit_discounted_amount |-> Get(price_unit(rec), "discount", Null),
     price_breakdown_summary      |-> price_breakdown_desc(rec),
     first_image_url              |-> Get(images(rec).v[1], "url", Null)]

\* The outcome of process_listing_data(rec): the row, or the exception.
process_listing_data(rec) ==
    IF Raises(rec) = "none"
    THEN [status |-> "returned", row |-> Row(rec)]
    ELSE [status |-> "raised", error |-> Raises(rec)]

\* ------------------------------------------------- the records flattened

\* Break-down sequences have at most MaxBreakDown entries.
MaxBreakDown == 2

\* A key that the record does not have.
Absent == [t |-> "absent"]

\* The dict with the keys of choice whose value is not Absent.
MakeDict(choice) ==
    DictVal([k \in {x \in DOMAIN choice : choice[x] # Absent} |-> choice[k]])

SeqsUpTo(S, n) == UNION {[1..k -> S] : k \in 0..n}

RoomIds == {Absent, Null, IntVal(0), IntVal(123), StrVal(""), StrVal("abc")}

BreakDownItems ==
    {EmptyDict,
     DictVal([description |-> StrVal("a")]),
     DictVal([description |-> StrVal("b")]),
     DictVal([description |-> Null])}

BreakDowns ==
    {Absent, Null} \cup {ListVal(xs) : xs \in SeqsUpTo(BreakDownItems, MaxBreakDown)}

Units ==
    {Absent, Null,
     DictVal([qualifier |-> StrVal("night"), curency_symbol |-> StrVal("$"),
              amount |-> IntVal(100), discount |-> IntVal(80)])}

Prices ==
    {Absent, Null} \cup {MakeDict(c) : c \in [unit : Units, break_down : BreakDowns]}

Ratings == {Absent, Null, DictVal([value |-> IntVal(5), reviewCount |-> IntVal(12)])}

Badges ==
    {Absent, Null, ListVal(<<StrVal("SUPERHOST")>>),
     ListVal(<<StrVal("GUEST_FAVORITE"), StrVal("SUPERHOST")>>)}

Coordinates ==
    {Absent, Null, DictVal([latitude |-> IntVal(41), longitude |-> IntVal(29)])}

Images ==
    {Absent, Null, ListVal(<<>>), ListVal(<<EmptyDict>>),
     ListVal(<<DictVal([url |-> StrVal("u1")])>>),
     ListVal(<<DictVal([url |-> StrVal("u2")]), DictVal([url |-> StrVal("u1")])>>)}

\* The mappings process_listing_data is applied to.
Listings ==
    {MakeDict(c) : c \in [room_id : RoomIds, price : Prices, rating : Ratings,
                          badges : Badges, coordinates : Coordinates, images : Images]}

\* ------------------------------------------------------------ specifications

\* Nothing has been searched, read, written or printed.
RunIdle ==
    /\ all_listings = <<>>
    /\ search_results = <<>>
    /\ merge_pos = 0
    /\ calls = 0
    /\ sleeps = 0
    /\ unique_listings = Null
    /\ files = <<>>
    /\ reported = {}
    /\ urls = <<>>
    /\ listing_details = Null

\* The grid generation of get_listings.py and scrape_airbnb.py.
Init ==
    /\ GridInit
    /\ listing = Null
    /\ result = Null
    /\ RunIdle

Next ==
    \/ ComputeSteps /\ UNCHANGED <<flattenVars, runVars>>
    \/ ComputeStepsFails /\ UNCHANGED <<flattenVars, runVars>>
    \/ StartLoop /\ UNCHANGED <<flattenVars, runVars>>
    \/ AppendCell /\ UNCHANGED <<flattenVars, runVars>>
    \/ AppendSubCells /\ UNCHANGED <<flattenVars, runVars>>
    \/ FinishGrid /\ UNCHANGED <<flattenVars, runVars>>

Spec == Init /\ [][Next]_vars

\* One call of process_listing_data on a record drawn from Listings.
ProcessListingData ==
    /\ result = Null
    /\ \E rec \in Listings :
          /\ listing' = rec
          /\ result' = process_listing_data(rec)
    /\ UNCHANGED <<gridVars, runVars>>

InitFlatten ==
    /\ script = "converter"
    /\ sw_lat_orig = ConfiguredBox.sw_lat
    /\ sw_long_orig = ConfiguredBox.sw_long
    /\ ne_lat_orig = ConfiguredBox.ne_lat
    /\ ne_long_orig = ConfiguredBox.ne_long
    /\ grid_size = ConfiguredGridSize
    /\ lat_step = Rat(0, 1)
    /\ long_step = Rat(0, 1)
    /\ i = 0
    /\ j = 0
    /\ bounding_boxes = <<>>
    /\ pc = "flatten"
    /\ error = "none"
    /\ listing = Null
    /\ result = Null
    /\ RunIdle

NextFlatten == ProcessListingData

SpecFlatten == InitFlatten /\ [][NextFlatten]_vars

\* ------------------------------------------------- geometry of the claims

NonDegenerateInput ==
    RLt(sw_lat_orig, ne_lat_orig) /\ RLt(sw_long_orig, ne_long_orig)

OriginalBox ==
    [sw_lat |-> sw_lat_orig, sw_long |-> sw_long_orig,
     ne_lat |-> ne_lat_orig, ne_long |-> ne_long_orig]

Area(b) == RMul(RSub(b.ne_lat, b.sw_lat), RSub(b.ne_long, b.sw_long))

\* The sum of the areas of bs[lo..hi], by halves.
RECURSIVE SumAreasOf(_, _, _)
SumAreasOf(bs, lo, hi) ==
    IF lo > hi THEN Rat(0, 1)
    ELSE IF lo = hi THEN Area(bs[lo])
    ELSE LET mid == (lo + hi) \div 2
         IN  RAdd(SumAreasOf(bs, lo, mid), SumAreasOf(bs, mid + 1, hi))

SumAreas(bs) == SumAreasOf(bs, 1, Len(bs))

\* The interiors of a and b meet.
Overlap(a, b) ==
    /\ RLt(a.sw_lat, b.ne_lat) /\ RLt(b.sw_lat, a.ne_lat)
    /\ RLt(a.sw_long, b.ne_long) /\ RLt(b.sw_long, a.ne_long)

Within(b, outer) ==
    /\ RLe(outer.sw_lat, b.sw_lat) /\ RLe(b.ne_lat, outer.ne_lat)
    /\ RLe(outer.sw_long, b.sw_long) /\ RLe(b.ne_long, outer.ne_long)

\* The boxes bs tile the box outer.
Tiles(bs, outer) ==
    /\ SumAreas(bs) = Area(outer)
    /\ \A a, b \in 1..Len(bs) : a # b => ~Overlap(bs[a], bs[b])
    /\ \A a \in 1..Len(bs) : Within(bs[a], outer)

\* Some box of bs has its (lat, long) corner at the given point.
HasCorner(bs, latField, longField, lat, long) ==
    \E a \in 1..Len(bs) : bs[a][latField] = lat /\ bs[a][longField] = long

\* Cell (a, b) of the grid as section 4.1 of the specification gives it:
\* sw + a * (ne - sw) / grid_size, for a grid_size > 0.
GridCell(a, b) ==
    LET dLat == RSub(ne_lat_orig, sw_lat_orig)
        dLong == RSub(ne_long_orig, sw_long_orig)
    IN  [sw_lat  |-> RAdd(sw_lat_orig, Rat(a * dLat.n, dLat.d * grid_size)),
         sw_long |-> RAdd(sw_long_orig, Rat(b * dLong.n, dLong.d * grid_size)),
         ne_lat  |-> RAdd(sw_lat_orig, Rat((a + 1) * dLat.n, dLat.d * grid_size)),
         ne_long |-> RAdd(sw_long_orig, Rat((b + 1) * dLong.n, dLong.d * grid_size))]

\* The boxes a step has appended.
Appended == SubSeq(bounding_boxes', Len(bounding_boxes) + 1, Len(bounding_boxes'))

Names(bs) == {bs[a].name : a \in 1..Len(bs)}

\* ------------------------------------------------------------------ C1

\* C1: for a non-degenerate original box and a positive grid size, the
\* generated boxes tile the original box: their areas sum to its area, no
\* two overlap, and each lies inside it.
C1_GridTilesOriginalBox ==
    (pc = "generated" /\ NonDegenerateInput /\ grid_size > 0)
        => Tiles(bounding_boxes, OriginalBox)

\* A finished 3 x 3 grid (no dense cell) over a non-degenerate box.
C1_Witness ==
    /\ pc = "generated"
    /\ NonDegenerateInput
    /\ grid_size = 3
    /\ Len(bounding_boxes) = 9

\* ------------------------------------------------------------------ C2

\* C2: the step that subdivides the dense cell (i, j) appends sub-cells that
\* tile exactly that cell: they lie inside it, do not overlap, cover its
\* area, and the four corners of the cell are corners of sub-cells.
C2_SubCellsTileParent ==
    [][(/\ pc = "loop" /\ i = dense_i /\ j = dense_j
        /\ NonDegenerateInput /\ grid_size > 0
        /\ bounding_boxes' # bounding_boxes)
        => LET parent == GridCell(i, j)
           IN  /\ Len(Appended) = sub_grid_size * sub_grid_size
               /\ Tiles(Appended, parent)
               /\ HasCorner(Appended, "sw_lat", "sw_long", parent.sw_lat, parent.sw_long)
               /\ HasCorner(Appended, "sw_lat", "ne_long", parent.sw_lat, parent.ne_long)
               /\ HasCorner(Appended, "ne_lat", "sw_long", parent.ne_lat, parent.sw_long)
               /\ HasCorner(Appended, "ne_lat", "ne_long", parent.ne_lat, parent.ne_long)]_vars

\* The dense cell of a non-degenerate box has just been subdivided.
C2_Witness ==
    /\ pc = "loop"
    /\ NonDegenerateInput
    /\ grid_size > dense_i
    /\ i = dense_i
    /\ j = dense_j + 1
    /\ Len(bounding_boxes) = dense_i * grid_size + dense_j + sub_grid_size * sub_grid_size

\* ------------------------------------------------------------------ C3

\* The configuration of the scripts: the box 41.03, 28.97, 41.04, 28.98 and
\* grid_size = 4.
IsConfigured ==
    /\ sw_lat_orig = ConfiguredBox.sw_lat /\ sw_long_orig = ConfiguredBox.sw_long
    /\ ne_lat_orig = ConfiguredBox.ne_lat /\ ne_long_orig = ConfiguredBox.ne_long
    /\ grid_size = ConfiguredGridSize

\* The box b is h high (latitude) and w wide (longitude).
HasSize(b, h, w) == RSub(b.ne_lat, b.sw_lat) = h /\ RSub(b.ne_long, b.sw_long) = w

AllCellNames ==
    {"Area_1_1", "Area_1_2", "Area_1_3", "Area_1_4",
     "Area_2_1", "Area_2_2", "Area_2_3", "Area_2_4",
     "Area_3_1", "Area_3_2", "Area_3_3", "Area_3_4",
     "Area_4_1", "Area_4_2", "Area_4_3", "Area_4_4"}

DenseSubNames ==
    {"Area_4_2_Sub_1_1", "Area_4_2_Sub_1_2", "Area_4_2_Sub_2_1", "Area_4_2_Sub_2_2"}

\* 0.0025 and 0.00125
CellSide == Rat(25, 10000)

SubCellSide == Rat(125, 100000)

\* C3 as claimed: the configured run yields 16 boxes of 0.0025 x 0.0025
\* labeled Area_1_1 through Area_4_4.
C3_SixteenEqualCells ==
    (pc = "generated" /\ IsConfigured)
        => /\ Len(bounding_boxes) = 16
           /\ Names(bounding_boxes) = AllCellNames
           /\ \A k \in 1..Len(bounding_boxes) :
                 HasSize(bounding_boxes[k], CellSide, CellSide)

\* C3 (amended): the configured run yields 19 boxes: the 15 cells other than
\* Area_4_2, each 0.0025 x 0.0025, and the four sub-cells
\* Area_4_2_Sub_1_1 .. Area_4_2_Sub_2_2 of Area_4_2, each 0.00125 x 0.00125.
C3_FifteenCellsAndFourSubCells ==
    (pc = "generated" /\ IsConfigured)
        => /\ Len(bounding_boxes) = 19
           /\ Names(bounding_boxes) = (AllCellNames \ {"Area_4_2"}) \cup DenseSubNames
           /\ \A k \in 1..Len(bounding_boxes) :
                 IF bounding_boxes[k].name \in DenseSubNames
                 THEN HasSize(bounding_boxes[k], SubCellSide, SubCellSide)
                 ELSE HasSize(bounding_boxes[k], CellSide, CellSide)

\* The configured run has generated its box list.
C3_Witness == pc = "generated" /\ IsConfigured /\ bounding_boxes # <<>>

\* ------------------------------------------------------------------ C4

\* grid size <= 0, or an original box of area zero
DegenerateInput == grid_size <= 0 \/ Area(OriginalBox) = Rat(0, 1)

\* C4 as claimed: with a degenerate input the generation fails and never
\* hands a box list on (it never reaches "generated").
C4_DegenerateInputFails == DegenerateInput => pc # "generated"

\* ------------------------------------------------------------------ C5

\* C5: with a non-degenerate original box and a positive grid size every box
\* in the list (cell or sub-cell) has sw_lat < ne_lat and sw_long < ne_long.
C5_BoxesNonDegenerate ==
    (NonDegenerateInput /\ grid_size > 0)
        => \A k \in 1..Len(bounding_boxes) :
              /\ RLt(bounding_boxes[k].sw_lat, bounding_boxes[k].ne_lat)
              /\ RLt(bounding_boxes[k].sw_long, bounding_boxes[k].ne_long)

\* A finished grid with cells and sub-cells over a non-degenerate box.
C5_Witness ==
    /\ pc = "generated"
    /\ NonDegenerateInput
    /\ grid_size > dense_i
    /\ Len(bounding_boxes) = grid_size * grid_size - 1 + sub_grid_size * sub_grid_size

\* ------------------------------------------------------------------ C6

\* Sub-cell (a, b) of the box parent split c ways: its south-west corner.
SubCorner(parent, a, b, c) ==
    LET h == RSub(parent.ne_lat, parent.sw_lat)
        w == RSub(parent.ne_long, parent.sw_long)
    IN  [sw_lat  |-> RAdd(parent.sw_lat, Rat(a * h.n, h.d * c)),
         sw_long |-> RAdd(parent.sw_long, Rat(b * w.n, w.d * c))]

\* C6: the box a step appends for an undivided cell (i, j) is labeled
\* Area_{i+1}_{j+1}; the box it appends for sub-cell (a, b) of cell (i, j) is
\* labeled Area_{i+1}_{j+1}_Sub_{a+1}_{b+1}; and no two boxes of the list
\* carry the same label.
C6_LabelsFromIndices ==
    /\ [](\A a, b \in 1..Len(bounding_boxes) :
            bounding_boxes[a].name = bounding_boxes[b].name => a = b)
    /\ [][(pc = "loop" /\ bounding_boxes' # bounding_boxes)
          => LET cell == "Area_" \o ToString(i + 1) \o "_" \o ToString(j + 1)
                 parent == GridCell(i, j)
             IN  IF Len(Appended) = 1
                 THEN /\ Appended[1].name = cell
                      /\ Appended[1].sw_lat = parent.sw_lat
                      /\ Appended[1].sw_long = parent.sw_long
                 ELSE \A a, b \in 0..(sub_grid_size - 1) :
                         \E k \in 1..Len(Appended) :
                            /\ Appended[k].name =
                                  cell \o "_Sub_" \o ToString(a + 1) \o "_" \o ToString(b + 1)
                            /\ Appended[k].sw_lat =
                                  SubCorner(parent, a, b, sub_grid_size).sw_lat
                            /\ Appended[k].sw_long =
                                  SubCorner(parent, a, b, sub_grid_size).sw_long]_vars

\* A finished list that holds labels of cells and of sub-cells.
C6_Witness ==
    /\ pc = "generated"
    /\ grid_size > dense_i
    /\ \E a, b \in 1..Len(bounding_boxes) :
          /\ bounding_boxes[a].name = "Area_1_1"
          /\ bounding_boxes[b].name = "Area_4_2_Sub_2_1"

\* ------------------------------------------------------------------ C7

Returned == result # Null /\ result.status = "returned"

\* The 17 columns of a flattened row.
Columns ==
    {"room_id", "listing_url", "category", "name", "title", "rating_value",
     "rating_review_count", "is_superhost", "is_guest_favorite", "latitude",
     "longitude", "price_unit_qualifier", "price_unit_currency_symbol",
     "price_unit_original_amount", "price_unit_discounted_amount",
     "price_breakdown_summary", "first_image_url"}

\* C7 as claimed: for every mapping (the empty one, one whose images is
\* empty, one whose price, rating, coordinates or badges is null) the call
\* returns a row with exactly the 17 columns.
C7_FlattenIsTotal ==
    result # Null => (result.status = "returned" /\ DOMAIN result.row = Columns)

\* ------------------------------------------------------------------ C8

\* The url field of an image descriptor, None when it has none.
UrlOf(image) == IF "url" \in DOMAIN image.v THEN image.v["url"] ELSE Null

\* C8 as claimed, on records that have no key but images and room_id: the
\* call returns a row whose first_image_url is the url of the first image
\* when there is one, and None when images is missing or empty.
C8_FirstImageUrl ==
    (/\ result # Null
     /\ DOMAIN listing.v \subseteq {"images", "room_id"}
     /\ ("images" \in DOMAIN listing.v => listing.v["images"].t = "list"))
        => /\ result.status = "returned"
           /\ IF "images" \in DOMAIN listing.v /\ Len(listing.v["images"].v) > 0
              THEN result.row.first_image_url = UrlOf(listing.v["images"].v[1])
              ELSE result.row.first_image_url = Null

\* ------------------------------------------------------------------ C9

\* str(x) of an identifier
IdText(x) ==
    CASE x.t = "null" -> "None"
      [] x.t = "int"  -> ToString(x.v)
      [] x.t = "str"  -> x.v

\* C9 as claimed: listing_url is the rooms URL of the identifier if and only
\* if the record has an identifier (the key room_id with a value, 0 and the
\* empty string included), and "N/A" otherwise.
C9_UrlIffKeyPresent ==
    Returned
        => IF "room_id" \in DOMAIN listing.v /\ listing.v["room_id"] # Null
           THEN result.row.listing_url =
                   "https://www.airbnb.com/rooms/" \o IdText(listing.v["room_id"])
           ELSE result.row.listing_url = "N/A"

\* C9 (amended): listing_url is the rooms URL of the identifier if and only
\* if the record has a room_id that is truthy (not None, not 0, not the empty
\* string), and "N/A" otherwise.
C9_UrlIffIdentifierTruthy ==
    Returned
        => IF /\ "room_id" \in DOMAIN listing.v
              /\ listing.v["room_id"] \notin {Null, IntVal(0), StrVal("")}
           THEN result.row.listing_url =
                   "https://www.airbnb.com/rooms/" \o IdText(listing.v["room_id"])
           ELSE result.row.listing_url = "N/A"

\* A row was returned for a record with room_id 123.
C9_Witness ==
    /\ Returned
    /\ "room_id" \in DOMAIN listing.v
    /\ listing.v["room_id"] = IntVal(123)
    /\ result.row.listing_url = "https://www.airbnb.com/rooms/123"

\* ------------------------------------------------------------------ C10

\* The entries of the record's price break-down sequence (none when the
\* price or the sequence is missing).
BreakDownEntries ==
    IF /\ "price" \in DOMAIN listing.v
       /\ listing.v["price"].t = "dict"
       /\ "break_down" \in DOMAIN listing.v["price"].v
       /\ listing.v["price"].v["break_down"].t = "list"
    THEN listing.v["price"].v["break_down"].v
    ELSE <<>>

\* The description of an entry, "" when it has none.
DescriptionOf(entry) ==
    IF "description" \in DOMAIN entry.v THEN entry.v["description"].v ELSE ""

\* The descriptions of the first k entries, in order, separated by " | ".
RECURSIVE SummaryOfFirst(_)
SummaryOfFirst(k) ==
    IF k = 0 THEN ""
    ELSE IF k = 1 THEN DescriptionOf(BreakDownEntries[1])
    ELSE SummaryOfFirst(k - 1) \o " | " \o DescriptionOf(BreakDownEntries[k])

\* Every entry has a str description or none.
EntriesWellFormed ==
    \A k \in 1..Len(BreakDownEntries) :
        "description" \in DOMAIN BreakDownEntries[k].v
            => BreakDownEntries[k].v["description"].t = "str"

\* C10: price_breakdown_summary is the descriptions of all entries of the
\* break-down sequence, in order, joined with " | ", an entry without a
\* description giving "" and a missing or empty sequence giving ""; and a
\* record that has only a price with such entries is flattened.
C10_BreakDownSummary ==
    /\ Returned => result.row.price_breakdown_summary = SummaryOfFirst(Len(BreakDownEntries))
    /\ (/\ result # Null
        /\ DOMAIN listing.v = {"price"}
        /\ listing.v["price"].t = "dict"
        /\ "unit" \notin DOMAIN listing.v["price"].v
        /\ "break_down" \in DOMAIN listing.v["price"].v
        /\ listing.v["price"].v["break_down"].t = "list"
        /\ EntriesWellFormed)
           => result.status = "returned"

\* A row was returned for a break-down of two entries, the first without a
\* description.
C10_Witness ==
    /\ Returned
    /\ Len(BreakDownEntries) = 2
    /\ "description" \notin DOMAIN BreakDownEntries[1].v
    /\ result.row.price_breakdown_summary = " | b"

\* ------------------------------------------------------------ the search loop
\* get_listings.main 134-155; scrape_airbnb.py 55-87.

\* A search result has at most MaxResults records.
MaxResults == 2

\* A Python dict with arbitrary keys is the sequence of its items
\* [key, value] in insertion order, which is the order of list(d.values()).
HasKey(d, key) == \E n \in 1..Len(d) : d[n].key = key

\* d[key], for a key of d
GetItem(d, key) == d[CHOOSE n \in 1..Len(d) : d[n].key = key].value

\* set(d.keys())
KeySet(d) == {d[n].key : n \in 1..Len(d)}

\* list(d.values())
Values(d) == [n \in 1..Len(d) |-> d[n].value]

\* SetItem that keeps the value a key already has.
SetItem_KeepFirst(d, key, value) ==
    IF HasKey(d, key) THEN d ELSE Append(d, [key |-> key, value |-> value])

\* SetItem that adds an item whether or not the key is there.
SetItem_Append(d, key, value) == Append(d, [key |-> key, value |-> value])

\* d[key] = value: the value of an existing key is replaced where it is, a
\* new key is added at the end.
SetItem(d, key, value) ==
    IF HasKey(d, key)
    THEN [n \in 1..Len(d) |->
            IF d[n].key = key THEN [key |-> key, value |-> value] ELSE d[n]]
    ELSE Append(d, [key |-> key, value |-> value])

\* The records a search returns: two listings in two versions each (the
\* second version of listing 2 has an empty image list) and one record
\* without 'room_id'.
SearchRecords ==
    {DictVal([room_id |-> IntVal(1), name |-> StrVal("a")]),
     DictVal([room_id |-> IntVal(1), name |-> StrVal("b")]),
     DictVal([room_id |-> IntVal(2), name |-> StrVal("a")]),
     DictVal([room_id |-> IntVal(2), images |-> ListVal(<<>>)]),
     DictVal([name |-> StrVal("a")])}

\* What pyairbnb.search_all can return.
ResultLists == SeqsUpTo(SearchRecords, MaxResults)

\* The grid sizes of the runs that go on to search: they give 0, 1 and 4
\* boxes (and the ZeroDivisionError of get_listings.main).
SearchGridSizes == {0 - 1, 0, 1, 2}

\* What pyairbnb.search_all raises, as text.
ExternalSourceError == "ExternalSourceError"

\* str(KeyError('room_id'))
KeyErrorRoomId == "'room_id'"

\* The message of the search loop's except clause (152 / 84):
\* f"An error occurred while searching area {box['name']}: {e}"
SearchError(idx, e) ==
    "An error occurred while searching area " \o bounding_boxes[idx + 1].name
    \o ": " \o e

\* `all_listings = {}` and the first step of enumerate(bounding_boxes).
StartSearch ==
    /\ pc = "generated"
    /\ all_listings' = <<>>
    /\ i' = 0
    /\ pc' = "search"
    /\ UNCHANGED <<script, sw_lat_orig, sw_long_orig, ne_lat_orig, ne_long_orig,
                   grid_size, lat_step, long_step, j, bounding_boxes, error>>
    /\ UNCHANGED <<search_results, merge_pos, calls, sleeps, unique_listings, files,
                   reported, urls, listing_details>>
    /\ UNCHANGED flattenVars

\* The position of the script after the iteration for box number idx: the
\* next box.  (search_results is not read again before it is rebound; the
\* model forgets it.)
NextBox_Stop(idx) ==
    /\ i' = Len(bounding_boxes)
    /\ pc' = "search"
    /\ search_results' = <<>>
    /\ merge_pos' = 0

\* The loop stays on box number idx.
NextBox_Stay(idx) ==
    /\ i' = idx
    /\ pc' = "search"
    /\ search_results' = <<>>
    /\ merge_pos' = 0

NextBox(idx) ==
    /\ i' = idx + 1
    /\ pc' = "search"
    /\ search_results' = <<>>
    /\ merge_pos' = 0

\* `if i < len(bounding_boxes) - 1` with the bound len(bounding_boxes).
PauseDue_EveryBox(idx) == idx < Len(bounding_boxes)

\* `if i < len(bounding_boxes) - 1` (149 / 80)
PauseDue(idx) == idx < Len(bounding_boxes) - 1

\* pyairbnb.search_all returns a list (141-145).
SearchAllReturns ==
    /\ pc = "search"
    /\ i < Len(bounding_boxes)
    /\ \E rs \in ResultLists : search_results' = rs
    /\ merge_pos' = 1
    /\ calls' = calls + 1
    /\ pc' = "merge"
    /\ UNCHANGED <<script, sw_lat_orig, sw_long_orig, ne_lat_orig, ne_long_orig,
                   grid_size, lat_step, long_step, i, j, bounding_boxes, error>>
    /\ UNCHANGED <<all_listings, sleeps, unique_listings, files, reported, urls,
                   listing_details>>
    /\ UNCHANGED flattenVars

\* pyairbnb.search_all raises; the except clause prints and the loop goes on
\* with the next box (151-152).
SearchAllRaises ==
    /\ pc = "search"
    /\ i < Len(bounding_boxes)
    /\ calls' = calls + 1
    /\ reported' = reported \cup {SearchError(i, ExternalSourceError)}
    /\ NextBox(i)
    /\ UNCHANGED <<script, sw_lat_orig, sw_long_orig, ne_lat_orig, ne_long_orig,
                   grid_size, lat_step, long_step, j, bounding_boxes, error>>
    /\ UNCHANGED <<all_listings, sleeps, unique_listings, files, urls,
                   listing_details>>
    /\ UNCHANGED flattenVars

\* One pass of `for listing in search_results` on a record with 'room_id'
\* (146-147).
MergeListing ==
    /\ pc = "merge"
    /\ merge_pos <= Len(search_results)
    /\ "room_id" \in DOMAIN search_results[merge_pos].v
    /\ all_listings' = SetItem(all_listings, search_results[merge_pos].v["room_id"],
                               search_results[merge_pos])
    /\ merge_pos' = merge_pos + 1
    /\ UNCHANGED <<script, sw_lat_orig, sw_long_orig, ne_lat_orig, ne_long_orig,
                   grid_size, lat_step, long_step, i, j, bounding_boxes, pc, error>>
    /\ UNCHANGED <<search_results, calls, sleeps, unique_listings, files, reported,
                   urls, listing_details>>
    /\ UNCHANGED flattenVars

\* One pass on a record without 'room_id': listing['room_id'] raises KeyError
\* inside the try of the box; the except clause prints and the loop goes on
\* with the next box.
MergeRaises ==
    /\ pc = "merge"
    /\ merge_pos <= Len(search_results)
    /\ "room_id" \notin DOMAIN search_results[merge_pos].v
    /\ reported' = reported \cup {SearchError(i, KeyErrorRoomId)}
    /\ NextBox(i)
    /\ UNCHANGED <<script, sw_lat_orig, sw_long_orig, ne_lat_orig, ne_long_orig,
                   grid_size, lat_step, long_step, j, bounding_boxes, error>>
    /\ UNCHANGED <<all_listings, calls, sleeps, unique_listings, files, urls,
                   listing_details>>
    /\ UNCHANGED flattenVars

\* The results are exhausted: the pause, unless this is the last box
\* (149-150), and the next box.
EndOfResults ==
    /\ pc = "merge"
    /\ merge_pos > Len(search_results)
    /\ sleeps' = IF PauseDue(i) THEN sleeps + 1 ELSE sleeps
    /\ NextBox(i)
    /\ UNCHANGED <<script, sw_lat_orig, sw_long_orig, ne_lat_orig, ne_long_orig,
                   grid_size, lat_step, long_step, j, bounding_boxes, error>>
    /\ UNCHANGED <<all_listings, calls, unique_listings, files, reported, urls,
                   listing_details>>
    /\ UNCHANGED flattenVars

\* ------------------------------------------------------------ the merge loop
\* The loop `for listing in search_results` of the first box, on result
\* lists of up to MaxMerged records.

MaxMerged == 3

\* The box list of grid size 1 on the configured box.
OneBox ==
    <<[sw_lat |-> ConfiguredBox.sw_lat, sw_long |-> ConfiguredBox.sw_long,
       ne_lat |-> ConfiguredBox.ne_lat, ne_long |-> ConfiguredBox.ne_long,
       name |-> "Area_1_1"]>>

\* The state in which search_all has returned for the first box of a run
\* with grid size 1.
InitMerge ==
    /\ script \in Scripts
    /\ sw_lat_orig = ConfiguredBox.sw_lat
    /\ sw_long_orig = ConfiguredBox.sw_long
    /\ ne_lat_orig = ConfiguredBox.ne_lat
    /\ ne_long_orig = ConfiguredBox.ne_long
    /\ grid_size = 1
    /\ lat_step = (IF script = "get_listings" THEN Rat(1, 100) ELSE Rat(0, 1))
    /\ long_step = (IF script = "get_listings" THEN Rat(1, 100) ELSE Rat(0, 1))
    /\ i = 0
    /\ j = 0
    /\ bounding_boxes = OneBox
    /\ pc = "merge"
    /\ error = "none"
    /\ listing = Null
    /\ result = Null
    /\ all_listings = <<>>
    /\ search_results \in SeqsUpTo(SearchRecords, MaxMerged)
    /\ merge_pos = 1
    /\ calls = 1
    /\ sleeps = 0
    /\ unique_listings = Null
    /\ files = <<>>
    /\ reported = {}
    /\ urls = <<>>
    /\ listing_details = Null

NextMerge ==
    \/ MergeListing
    \/ MergeRaises
    \/ EndOfResults

SpecMerge == InitMerge /\ [][NextMerge]_vars

\* The loop of 146-147 as a function: the dict after merging recs into d.
RECURSIVE MergeAll(_, _)
MergeAll(d, recs) ==
    IF Len(recs) = 0 THEN d
    ELSE MergeAll(SetItem(d, Head(recs).v["room_id"], Head(recs)), Tail(recs))

\* The records the merge loop has merged so far.
Merged == SubSeq(search_results, 1, merge_pos - 1)

IdOf(rec) == rec.v["room_id"]

\* The last record of recs with identifier id.
LastWith(recs, id) ==
    recs[CHOOSE n \in 1..Len(recs) :
            /\ IdOf(recs[n]) = id
            /\ \A m \in (n + 1)..Len(recs) : IdOf(recs[m]) # id]

\* C11: while records are merged, the collection has one entry per
\* identifier among the records merged so far, and no other entry, and the
\* entry of an identifier is the last record merged with that identifier.
C11_LastWriteWins ==
    pc = "merge" =>
        /\ KeySet(all_listings) = {IdOf(Merged[n]) : n \in 1..Len(Merged)}
        /\ Len(all_listings) = Cardinality(KeySet(all_listings))
        /\ \A id \in KeySet(all_listings) :
              GetItem(all_listings, id) = LastWith(Merged, id)

\* The scenario of the claim: identifiers [1, 2, 1], the third record
\* differing from the first, all three merged.
C11_Witness ==
    /\ pc = "merge"
    /\ merge_pos = 4
    /\ [n \in 1..3 |-> IdOf(search_results[n])] = <<IntVal(1), IntVal(2), IntVal(1)>>
    /\ search_results[1] # search_results[3]
    /\ Len(all_listings) = 2
    /\ GetItem(all_listings, IntVal(1)) = search_results[3]

\* The sequence recs in the order p, a permutation of its indices.
Permuted(recs, p) == [n \in 1..Len(recs) |-> recs[p[n]]]

\* All of search_results has been merged.
AllMerged == pc = "merge" /\ merge_pos = Len(search_results) + 1

\* C12: merging the record that was merged just before leaves the collection
\* as it is; and when a result list has been merged, merging any permutation
\* of it gives a collection of the same size with the same identifiers.
C12_IdempotentOrderIndependent ==
    /\ [][(/\ pc = "merge"
           /\ merge_pos > 1
           /\ merge_pos' = merge_pos + 1
           /\ search_results[merge_pos] = search_results[merge_pos - 1])
          => all_listings' = all_listings]_vars
    /\ [](AllMerged =>
            \A p \in Permutations(1..Len(search_results)) :
                LET other == MergeAll(<<>>, Permuted(search_results, p))
                IN  /\ KeySet(other) = KeySet(all_listings)
                    /\ Len(other) = Len(all_listings))

\* A record has been merged twice in a row, and a list of three records
\* with a repeated identifier has been merged.
C12_Witness ==
    /\ AllMerged
    /\ Len(search_results) = 3
    /\ search_results[3] = search_results[2]
    /\ IdOf(search_results[1]) # IdOf(search_results[2])
    /\ Len(all_listings) = 2

\* ------------------------------------------------------------------- JSON
\* json.dump and json.load.  A JSON text is the sequence of its tokens;
\* white space (indent=4) is not a token.

Tok(x) == [tok |-> x]

NumTok(n) == [tok |-> "num", v |-> n]

StrTok(x) == [tok |-> "str", v |-> x]

\* The tokens of the items, with a comma between two items.
RECURSIVE CommaSeparated(_)
CommaSeparated(items) ==
    IF Len(items) = 0 THEN <<>>
    ELSE IF Len(items) = 1 THEN items[1]
    ELSE items[1] \o <<Tok(",")>> \o CommaSeparated(Tail(items))

\* The keys of a dict, one after the other.
RECURSIVE KeyOrder(_)
KeyOrder(keys) ==
    IF keys = {} THEN <<>>
    ELSE LET key == CHOOSE x \in keys : TRUE
         IN  <<key>> \o KeyOrder(keys \ {key})

\* Dump that writes an int between quotes.
RECURSIVE Dump_QuotedNumbers(_)
Dump_QuotedNumbers(x) ==
    CASE x.t = "null" -> <<Tok("null")>>
      [] x.t = "int"  -> <<StrTok(ToString(x.v))>>
      [] x.t = "str"  -> <<StrTok(x.v)>>
      [] x.t = "list" ->
            <<Tok("[")>>
            \o CommaSeparated([n \in 1..Len(x.v) |-> Dump_QuotedNumbers(x.v[n])])
            \o <<Tok("]")>>
      [] x.t = "dict" ->
            LET keys == KeyOrder(DOMAIN x.v)
            IN  <<Tok("{")>>
                \o CommaSeparated([n \in 1..Len(keys) |->
                       <<StrTok(keys[n]), Tok(":")>> \o Dump_QuotedNumbers(x.v[keys[n]])])
                \o <<Tok("}")>>

\* json.dump(x, f, ensure_ascii=False, indent=4): the text written.
RECURSIVE Dump(_)
Dump(x) ==
    CASE x.t = "null" -> <<Tok("null")>>
      [] x.t = "int"  -> <<NumTok(x.v)>>
      [] x.t = "str"  -> <<StrTok(x.v)>>
      [] x.t = "list" ->
            <<Tok("[")>>
            \o CommaSeparated([n \in 1..Len(x.v) |-> Dump(x.v[n])])
            \o <<Tok("]")>>
      [] x.t = "dict" ->
            LET keys == KeyOrder(DOMAIN x.v)
            IN  <<Tok("{")>>
                \o CommaSeparated([n \in 1..Len(keys) |->
                       <<StrTok(keys[n]), Tok(":")>> \o Dump(x.v[keys[n]])])
                \o <<Tok("}")>>

\* The result of parsing a prefix of a text: the value and the rest of the
\* text, or a failure.
Parsed(val, rest) == [ok |-> TRUE, val |-> val, rest |-> rest]

ParseError == [ok |-> FALSE]

RECURSIVE ParseValue(_)
RECURSIVE ParseElements(_, _)
RECURSIVE ParseMembers(_, _)

\* The elements of an array after `[` or `,`, then `]`.
ParseElements(ts, acc) ==
    LET r == ParseValue(ts)
    IN  IF ~r.ok \/ Len(r.rest) = 0 THEN ParseError
        ELSE IF r.rest[1] = Tok(",") THEN ParseElements(Tail(r.rest), Append(acc, r.val))
        ELSE IF r.rest[1] = Tok("]") THEN Parsed(ListVal(Append(acc, r.val)), Tail(r.rest))
        ELSE ParseError

\* The members of an object after `{` or `,`, then `}`.  A repeated key
\* keeps its last value.
ParseMembers(ts, f) ==
    IF Len(ts) < 2 \/ ts[1].tok # "str" \/ ts[2] # Tok(":") THEN ParseError
    ELSE LET r == ParseValue(SubSeq(ts, 3, Len(ts)))
             g == [key \in DOMAIN f \cup {ts[1].v} |->
                      IF key = ts[1].v THEN r.val ELSE f[key]]
         IN  IF ~r.ok \/ Len(r.rest) = 0 THEN ParseError
             ELSE IF r.rest[1] = Tok(",") THEN ParseMembers(Tail(r.rest), g)
             ELSE IF r.rest[1] = Tok("}") THEN Parsed(DictVal(g), Tail(r.rest))
             ELSE ParseError

ParseValue(ts) ==
    IF Len(ts) = 0 THEN ParseError
    ELSE CASE ts[1].tok = "null" -> Parsed(Null, Tail(ts))
           [] ts[1].tok = "num"  -> Parsed(IntVal(ts[1].v), Tail(ts))
           [] ts[1].tok = "str"  -> Parsed(StrVal(ts[1].v), Tail(ts))
           [] ts[1].tok = "["    ->
                 IF Len(ts) > 1 /\ ts[2] = Tok("]")
                 THEN Parsed(ListVal(<<>>), SubSeq(ts, 3, Len(ts)))
                 ELSE ParseElements(Tail(ts), <<>>)
           [] ts[1].tok = "{"    ->
                 IF Len(ts) > 1 /\ ts[2] = Tok("}")
                 THEN Parsed(EmptyDict, SubSeq(ts, 3, Len(ts)))
                 ELSE ParseMembers(Tail(ts), <<>>)
           [] OTHER -> ParseError

\* json.load(f): the value, or JSONDecodeError.
JSONDecodeError == [t |-> "JSONDecodeError"]

Load(ts) ==
    LET r == ParseValue(ts)
    IN  IF r.ok /\ Len(r.rest) = 0 THEN r.val ELSE JSONDecodeError

\* ------------------------------------------------------------- the exports
\* get_listings.main 154-182; scrape_airbnb.py 87-99; converter.py 53-90.

\* get_listings.py 17-19; scrape_airbnb.py 92, 97; converter.py 98-99
JsonFile == "search_results_all_final.json"

UrlsFile == "airbnb_all_listings_final.txt"

ExcelFile == "istanbul_listings_analysis.xlsx"

\* The messages of the except clauses (get_listings.py 165, 175, 89) and of
\* converter.py 65, 88, 90.
JsonError == "Error saving JSON file"

UrlsError == "Error saving URLs file"

ExcelError == "An unexpected error occurred during Excel conversion"

NotFoundError == "The file was not found"

InvalidJsonError == "The file is not a valid JSON file"

UnexpectedError == "An unexpected error occurred"

\* A write either succeeds, or fails in open() before the file is touched,
\* or fails after open() has truncated the file.
WriteOutcomes == {"written", "open_failed", "write_failed"}

\* The file system after the attempt when the file is opened for appending.
Written_Appended(name, content, outcome) ==
    CASE outcome = "written"      -> [f \in DOMAIN files \cup {name} |->
                                         IF f \notin DOMAIN files THEN content
                                         ELSE IF f = name THEN files[f] \o content
                                         ELSE files[f]]
      [] outcome = "open_failed"  -> files
      [] outcome = "write_failed" -> [f \in DOMAIN files \cup {name} |->
                                         IF f \in DOMAIN files THEN files[f] ELSE <<>>]

\* The file system after the attempt to write content to the file name.
Written(name, content, outcome) ==
    CASE outcome = "written"      -> [f \in DOMAIN files \cup {name} |->
                                         IF f = name THEN content ELSE files[f]]
      [] outcome = "open_failed"  -> files
      [] outcome = "write_failed" -> [f \in DOMAIN files \cup {name} |->
                                         IF f = name THEN <<>> ELSE files[f]]

\* [f"https://www.airbnb.com/rooms/{listing['room_id']}" for listing in ...],
\* one line per URL
UrlLines(recs) ==
    [n \in 1..Len(recs) |->
        "https://www.airbnb.com/rooms/" \o Format(recs[n].v["room_id"])]

\* Some call of process_listing_data in the list comprehension raises.
ConvertRaises(recs) ==
    \E n \in 1..Len(recs) : process_listing_data(recs[n]).status = "raised"

\* processed_data = [process_listing_data(listing) for listing in ...]
ProcessedData(recs) == [n \in 1..Len(recs) |-> process_listing_data(recs[n]).row]

\* The loop over the boxes is over: unique_listings = list(all_listings.values())
EndOfBoxes ==
    /\ pc = "search"
    /\ i >= Len(bounding_boxes)
    /\ unique_listings' = ListVal(Values(all_listings))
    /\ pc' = (IF script = "get_listings" THEN "export_json" ELSE "final_urls")
    /\ UNCHANGED <<script, sw_lat_orig, sw_long_orig, ne_lat_orig, ne_long_orig,
                   grid_size, lat_step, long_step, i, j, bounding_boxes, error>>
    /\ UNCHANGED <<all_listings, search_results, merge_pos, calls, sleeps, files,
                   reported, urls, listing_details>>
    /\ UNCHANGED flattenVars

\* get_listings.main 160-165: the raw JSON export in its try.
ExportJson ==
    /\ pc = "export_json"
    /\ \E outcome \in WriteOutcomes :
          /\ files' = Written(JsonFile, Dump(unique_listings), outcome)
          /\ reported' = (IF outcome = "written" THEN reported
                          ELSE reported \cup {JsonError})
    /\ pc' = "export_urls"
    /\ UNCHANGED <<script, sw_lat_orig, sw_long_orig, ne_lat_orig, ne_long_orig,
                   grid_size, lat_step, long_step, i, j, bounding_boxes, error>>
    /\ UNCHANGED <<all_listings, search_results, merge_pos, calls, sleeps,
                   unique_listings, urls, listing_details>>
    /\ UNCHANGED flattenVars

\* get_listings.main 168-175: the URL list export in its try.
ExportUrls ==
    /\ pc = "export_urls"
    /\ \E outcome \in WriteOutcomes :
          /\ files' = Written(UrlsFile, UrlLines(unique_listings.v), outcome)
          /\ reported' = (IF outcome = "written" THEN reported
                          ELSE reported \cup {UrlsError})
    /\ pc' = "export_excel"
    /\ UNCHANGED <<script, sw_lat_orig, sw_long_orig, ne_lat_orig, ne_long_orig,
                   grid_size, lat_step, long_step, i, j, bounding_boxes, error>>
    /\ UNCHANGED <<all_listings, search_results, merge_pos, calls, sleeps,
                   unique_listings, urls, listing_details>>
    /\ UNCHANGED flattenVars

\* get_listings.main 178-181 with convert_data_to_excel (68-90): nothing for
\* an empty list; otherwise the rows of all records and one write, inside one
\* try.
ExportExcel ==
    /\ pc = "export_excel"
    /\ IF ~Truthy(unique_listings)
       THEN UNCHANGED <<files, reported>>
       ELSE IF ConvertRaises(unique_listings.v)
       THEN /\ reported' = reported \cup {ExcelError}
            /\ UNCHANGED files
       ELSE \E outcome \in WriteOutcomes :
               /\ files' = Written(ExcelFile, ProcessedData(unique_listings.v), outcome)
               /\ reported' = (IF outcome = "written" THEN reported
                               ELSE reported \cup {ExcelError})
    /\ pc' = "done"
    /\ UNCHANGED <<script, sw_lat_orig, sw_long_orig, ne_lat_orig, ne_long_orig,
                   grid_size, lat_step, long_step, i, j, bounding_boxes, error>>
    /\ UNCHANGED <<all_listings, search_results, merge_pos, calls, sleeps,
                   unique_listings, urls, listing_details>>
    /\ UNCHANGED flattenVars

\* scrape_airbnb.py 90-95: the URL list is written outside any try; an
\* OSError ends the script.
FinalUrls ==
    /\ pc = "final_urls"
    /\ \E outcome \in WriteOutcomes :
          /\ files' = Written(UrlsFile, UrlLines(unique_listings.v), outcome)
          /\ pc' = (IF outcome = "written" THEN "final_json" ELSE "crashed")
          /\ error' = (IF outcome = "written" THEN error ELSE "OSError")
    /\ UNCHANGED <<script, sw_lat_orig, sw_long_orig, ne_lat_orig, ne_long_orig,
                   grid_size, lat_step, long_step, i, j, bounding_boxes>>
    /\ UNCHANGED <<all_listings, search_results, merge_pos, calls, sleeps,
                   unique_listings, reported, urls, listing_details>>
    /\ UNCHANGED flattenVars

\* scrape_airbnb.py 97-99: the raw JSON is written outside any try.
FinalJson ==
    /\ pc = "final_json"
    /\ \E outcome \in WriteOutcomes :
          /\ files' = Written(JsonFile, Dump(unique_listings), outcome)
          /\ pc' = (IF outcome = "written" THEN "done" ELSE "crashed")
          /\ error' = (IF outcome = "written" THEN error ELSE "OSError")
    /\ UNCHANGED <<script, sw_lat_orig, sw_long_orig, ne_lat_orig, ne_long_orig,
                   grid_size, lat_step, long_step, i, j, bounding_boxes>>
    /\ UNCHANGED <<all_listings, search_results, merge_pos, calls, sleeps,
                   unique_listings, reported, urls, listing_details>>
    /\ UNCHANGED flattenVars

\* What converter.py finds under its input name: nothing, a text that is not
\* JSON, or the dump of a list of records.
ConverterInputs ==
    {<<>>, [f \in {JsonFile} |-> <<Tok("[")>>]}
    \cup {[f \in {JsonFile} |-> Dump(ListVal(rs))] : rs \in ResultLists}

\* converter.json_to_excel (53-90), the whole call.
JsonToExcel ==
    /\ pc = "convert"
    /\ IF JsonFile \notin DOMAIN files
       THEN /\ reported' = reported \cup {NotFoundError}
            /\ UNCHANGED <<files, unique_listings>>
       ELSE LET data == Load(files[JsonFile])
            IN  IF data = JSONDecodeError
                THEN /\ reported' = reported \cup {InvalidJsonError}
                     /\ UNCHANGED <<files, unique_listings>>
                ELSE /\ unique_listings' = data
                     /\ IF ConvertRaises(data.v)
                        THEN /\ reported' = reported \cup {UnexpectedError}
                             /\ UNCHANGED files
                        ELSE \E outcome \in WriteOutcomes :
                                /\ files' = Written(ExcelFile, ProcessedData(data.v),
                                                    outcome)
                                /\ reported' = (IF outcome = "written" THEN reported
                                                ELSE reported \cup {UnexpectedError})
    /\ pc' = "done"
    /\ UNCHANGED <<script, sw_lat_orig, sw_long_orig, ne_lat_orig, ne_long_orig,
                   grid_size, lat_step, long_step, i, j, bounding_boxes, error>>
    /\ UNCHANGED <<all_listings, search_results, merge_pos, calls, sleeps, urls,
                   listing_details>>
    /\ UNCHANGED flattenVars

\* ------------------------------------------------- the runs of the scripts

\* get_listings.py and scrape_airbnb.py start on the configured box with a
\* grid size of SearchGridSizes; converter.py starts with its input file.
InitPipeline ==
    /\ sw_lat_orig = ConfiguredBox.sw_lat
    /\ sw_long_orig = ConfiguredBox.sw_long
    /\ ne_lat_orig = ConfiguredBox.ne_lat
    /\ ne_long_orig = ConfiguredBox.ne_long
    /\ lat_step = Rat(0, 1)
    /\ long_step = Rat(0, 1)
    /\ i = 0
    /\ j = 0
    /\ bounding_boxes = <<>>
    /\ error = "none"
    /\ listing = Null
    /\ result = Null
    /\ all_listings = <<>>
    /\ search_results = <<>>
    /\ merge_pos = 0
    /\ calls = 0
    /\ sleeps = 0
    /\ unique_listings = Null
    /\ reported = {}
    /\ urls = <<>>
    /\ listing_details = Null
    /\ \/ /\ script \in Scripts
          /\ grid_size \in SearchGridSizes
          /\ pc = "start"
          /\ files = <<>>
       \/ /\ script = "converter"
          /\ grid_size = ConfiguredGridSize
          /\ pc = "convert"
          /\ files \in ConverterInputs

\* The grid sizes are below 4, so the dense cell (3, 1) is never reached.
NextPipeline ==
    \/ ComputeSteps /\ UNCHANGED <<flattenVars, runVars>>
    \/ ComputeStepsFails /\ UNCHANGED <<flattenVars, runVars>>
    \/ StartLoop /\ UNCHANGED <<flattenVars, runVars>>
    \/ AppendCell /\ UNCHANGED <<flattenVars, runVars>>
    \/ FinishGrid /\ UNCHANGED <<flattenVars, runVars>>
    \/ StartSearch
    \/ SearchAllReturns
    \/ SearchAllRaises
    \/ MergeListing
    \/ MergeRaises
    \/ EndOfResults
    \/ EndOfBoxes
    \/ ExportJson
    \/ ExportUrls
    \/ ExportExcel
    \/ FinalUrls
    \/ FinalJson
    \/ JsonToExcel

SpecPipeline == InitPipeline /\ [][NextPipeline]_vars

\* ------------------------------------------------ claims on the search loop

\* The loop over the boxes is behind the script.
LoopOver == pc \in {"export_json", "export_urls", "export_excel", "final_urls",
                    "final_json", "done"}

\* The step in which pyairbnb.search_all raises.
SearchCallFails == pc = "search" /\ calls' = calls + 1 /\ pc' = "search"

\* C13: a search call that raises leaves the collection as it is and moves
\* the loop to the next box without ending the script; so every box before
\* the loop's position has been queried, and all boxes when the loop is over.
C13_FailedCallIsSkipped ==
    /\ [][SearchCallFails =>
             /\ all_listings' = all_listings
             /\ i' = i + 1
             /\ error' = "none"]_vars
    /\ [](/\ pc = "search" => calls = i
          /\ pc = "merge" => calls = i + 1
          /\ LoopOver => calls = Len(bounding_boxes))

\* The first box gave two listings, the call for the second box failed and
\* the call for the third box has returned.
C13_Witness ==
    /\ pc = "merge"
    /\ i = 2
    /\ merge_pos = 1
    /\ reported = {"An error occurred while searching area Area_1_2: ExternalSourceError"}
    /\ Len(all_listings) = 2
    /\ sleeps = 1

\* The step that ends the iteration of a box whose call returned.
IterationEnds == pc = "merge" /\ pc' = "search"

\* Every record of the result that has a 'room_id' is in the collection of
\* the next state under its identifier.
WellFormedRecordsMerged ==
    \A n \in 1..Len(search_results) :
        "room_id" \in DOMAIN search_results[n].v
            => HasKey(all_listings', IdOf(search_results[n]))

\* C14: when the iteration of a box ends, every record of its result that
\* has a 'room_id' is in the collection under its identifier, whether or not
\* another record of the result has none.
C14_MalformedRecordIsSkippedAlone == [][IterationEnds => WellFormedRecordsMerged]_vars

\* C16: when the call for a further box is due, every call made so far has
\* been followed by a pause; when the loop is over, every call but the last.
C16_PauseBetweenCalls ==
    /\ (pc = "search" /\ i < Len(bounding_boxes)) => sleeps = calls
    /\ (LoopOver /\ calls > 0) => sleeps = calls - 1

\* --------------------------------------------------- claims on the exports

\* The rows of the records of recs that process_listing_data returns for.
RECURSIVE RowsOfFlattened(_)
RowsOfFlattened(recs) ==
    IF Len(recs) = 0 THEN <<>>
    ELSE IF process_listing_data(Head(recs)).status = "returned"
    THEN <<process_listing_data(Head(recs)).row>> \o RowsOfFlattened(Tail(recs))
    ELSE RowsOfFlattened(Tail(recs))

\* The conversion has run on a list of several records of which exactly one
\* makes process_listing_data raise.
OneRecordFailed ==
    /\ pc = "done"
    /\ script \in {"get_listings", "converter"}
    /\ unique_listings # Null
    /\ Len(unique_listings.v) > 1
    /\ Cardinality({n \in 1..Len(unique_listings.v) :
                      process_listing_data(unique_listings.v[n]).status = "raised"}) = 1

\* C15: after a conversion in which one record failed to flatten, the Excel
\* file holds the rows of all the other records.
C15_OtherRowsAreWritten ==
    OneRecordFailed =>
        /\ ExcelFile \in DOMAIN files
        /\ files[ExcelFile] = RowsOfFlattened(unique_listings.v)

\* The export steps of the grid-search scripts and the file each writes.
ExportSteps == {"export_json", "export_urls", "export_excel", "final_urls", "final_json"}

TargetOf(step) ==
    CASE step \in {"export_json", "final_json"} -> JsonFile
      [] step \in {"export_urls", "final_urls"} -> UrlsFile
      [] step = "export_excel"                  -> ExcelFile

\* Every file but the one the step at pc writes is in the next state what it
\* is now.
OtherFilesUntouched ==
    \A f \in DOMAIN files \ {TargetOf(pc)} :
        f \in DOMAIN files' /\ files'[f] = files[f]

\* The script is at an export step.
ExportStep == pc \in ExportSteps

\* C19: an export step, failing or not, leaves the script running towards
\* the remaining steps and leaves every file but its own as it is.
C19_ExportFailureIsIsolated ==
    [][ExportStep => (pc' # "crashed" /\ OtherFilesUntouched)]_vars

\* The raw export of a grid-search script has written its file completely
\* (an export that failed leaves no file or an empty one).
RawExported ==
    /\ script \in Scripts
    /\ JsonFile \in DOMAIN files
    /\ Len(files[JsonFile]) > 0

\* C20: loading the file the raw export has written gives the list of the
\* collection's records: the same records in the same order, under the
\* identifiers the collection holds them under.
C20_RawExportRoundTrip ==
    RawExported =>
        /\ Load(files[JsonFile]) = unique_listings
        /\ Load(files[JsonFile]) = ListVal(Values(all_listings))
        /\ [n \in 1..Len(all_listings) |-> IdOf(Load(files[JsonFile]).v[n])]
              = [n \in 1..Len(all_listings) |-> all_listings[n].key]

\* Two listings, one of them with a nested value, have been exported.
C20_Witness ==
    /\ RawExported
    /\ Len(all_listings) = 2
    /\ \E n \in 1..2 : "images" \in DOMAIN all_listings[n].value.v

\* ------------------------------------------------------ the detail reports
\* scrape_single_listing.save_as_excel 10-101, scrape_bulk_listings.save_as_excel
\* 12-97 (the same body), scrape_and_export.save_as_local_files 103-116.
\* An Excel file is the sequence of the names of its sheets; the cells are
\* not modelled.

\* `if data.get(key):`
Present(data, key) == Truthy(Get(data, key, Null))

\* The Summary sheet raises AttributeError when data.get(key, {}) is not a
\* dict (lines 39-51: coordinates, rating, host).
SummaryRaises(data) ==
    \E key \in {"coordinates", "rating", "host"} : Get(data, key, EmptyDict).t # "dict"

\* month_data.get('days', [])
Days(month_data) == Get(month_data, "days", ListVal(<<>>)).v

\* The Calendar_Pricing sheet raises AttributeError when some
\* day_data.get('price', {}) is not a dict (line 77).
CalendarRaises(data) ==
    /\ Present(data, "calendar")
    /\ \E m \in 1..Len(data.v["calendar"].v) :
          \E d \in 1..Len(Days(data.v["calendar"].v[m])) :
              Get(Days(data.v["calendar"].v[m])[d], "price", EmptyDict).t # "dict"

\* The sheet of a section: written when the field is truthy.
Section(data, key, name) == IF Present(data, key) THEN <<name>> ELSE <<>>

\* The sheets save_as_excel writes to the writer, in order, up to the first
\* statement that raises.
SheetsWritten(data) ==
    IF SummaryRaises(data) THEN <<>>
    ELSE <<"Summary">>
         \o Section(data, "reviews", "Reviews")
         \o (IF CalendarRaises(data) THEN <<>>
             ELSE Section(data, "calendar", "Calendar_Pricing")
                  \o Section(data, "amenities", "Amenities")
                  \o Section(data, "images", "Photos"))

\* save_as_excel raises inside its with block.
SaveAsExcelRaises(data) == SummaryRaises(data) \/ CalendarRaises(data)

\* The sheets save_as_local_files writes (line 115):
\* pd.DataFrame(data.get('reviews', [])).to_excel(writer, sheet_name='Reviews')
LocalSheetsWritten(data) == <<"Reviews">>

\* The URL and the listing id of the runs (re.search(r'/rooms/(\d+)', url)).
DetailUrl == "https://www.airbnb.com/rooms/12"

\* Messages of the except clauses (scrape_single_listing.py 101,
\* scrape_and_export.py 148).
DetailExcelError == "Error creating Excel file"

ScrapeError == "An unexpected error occurred during the scraping process"

DetailScripts == {"scrape_single_listing", "scrape_bulk_listings", "scrape_and_export"}

\* excel_filename (scrape_single_listing.py 135, scrape_bulk_listings.py 118,
\* scrape_and_export.py 113) and json_filename (scrape_and_export.py 107)
DetailExcelFile ==
    IF script = "scrape_bulk_listings" THEN "1) 12.xlsx" ELSE "listing_12_details.xlsx"

DetailJsonFile == "listing_12_details.json"

\* The records pyairbnb.get_details returns.
DetailReviews ==
    {Absent, Null, ListVal(<<>>), ListVal(<<DictVal([comments |-> StrVal("nice")])>>)}

DetailCalendars ==
    {Absent, Null, ListVal(<<>>),
     ListVal(<<DictVal([days |-> ListVal(<<DictVal(
         [date |-> StrVal("2026-01-01"),
          price |-> DictVal([nativePrice |-> IntVal(100)])])>>)])>>),
     ListVal(<<DictVal([days |-> ListVal(<<DictVal(
         [date |-> StrVal("2026-01-01"), price |-> Null])>>)])>>)}

DetailAmenities ==
    {Absent, ListVal(<<>>),
     ListVal(<<DictVal([title |-> StrVal("Kitchen"),
                        values |-> ListVal(<<DictVal([title |-> StrVal("Oven")])>>)])>>)}

DetailImages == {Absent, ListVal(<<>>), ListVal(<<DictVal([url |-> StrVal("u1")])>>)}

DetailCoordinates ==
    {Absent, Null, DictVal([latitude |-> IntVal(41), longitude |-> IntVal(29)])}

DetailRecords ==
    {MakeDict(c) : c \in [reviews : DetailReviews, calendar : DetailCalendars,
                          amenities : DetailAmenities, images : DetailImages,
                          coordinates : DetailCoordinates]}

\* What can happen to the file of save_as_excel: the writer fails to open
\* it; or it is saved with the sheets written; or, when the body raises, it
\* is left out or saved with the sheets written so far, as pandas decides.
ExcelOutcomes == {"written", "open_failed", "abandoned"}

\* save_as_excel reaches its except clause.
ExcelFails(data, outcome) == outcome = "open_failed" \/ SaveAsExcelRaises(data)

\* The file system after save_as_excel(data, name, url).
ExcelSaved(name, data, outcome) ==
    IF outcome = "open_failed" \/ (SaveAsExcelRaises(data) /\ outcome = "abandoned")
    THEN files
    ELSE Written(name, SheetsWritten(data), "written")

\* One call of save_as_excel.
SaveAsExcel ==
    /\ pc = "save"
    /\ script \in {"scrape_single_listing", "scrape_bulk_listings"}
    /\ \E outcome \in ExcelOutcomes :
          /\ files' = ExcelSaved(DetailExcelFile, listing_details, outcome)
          /\ reported' = (IF ExcelFails(listing_details, outcome)
                          THEN reported \cup {DetailExcelError}
                          ELSE reported)
    /\ pc' = "saved"
    /\ UNCHANGED <<script, sw_lat_orig, sw_long_orig, ne_lat_orig, ne_long_orig,
                   grid_size, lat_step, long_step, i, j, bounding_boxes, error>>
    /\ UNCHANGED <<all_listings, search_results, merge_pos, calls, sleeps,
                   unique_listings, urls, listing_details>>
    /\ UNCHANGED flattenVars

\* One call of save_as_local_files inside the try of scrape_and_export.main
\* (134-148): the JSON file, then the Excel file; an OSError goes to main's
\* except clause.
SaveAsLocalFiles ==
    /\ pc = "save"
    /\ script = "scrape_and_export"
    /\ \E step \in {"json_failed", "excel_failed", "written"} :
          /\ files' =
                (CASE step = "json_failed" -> files
                   [] step = "excel_failed" ->
                         [f \in {DetailJsonFile} |-> Dump(listing_details)]
                   [] step = "written" ->
                         [f \in {DetailJsonFile, DetailExcelFile} |->
                             IF f = DetailJsonFile THEN Dump(listing_details)
                             ELSE LocalSheetsWritten(listing_details)])
          /\ reported' = (IF step = "written" THEN reported
                          ELSE reported \cup {ScrapeError})
    /\ pc' = "saved"
    /\ UNCHANGED <<script, sw_lat_orig, sw_long_orig, ne_lat_orig, ne_long_orig,
                   grid_size, lat_step, long_step, i, j, bounding_boxes, error>>
    /\ UNCHANGED <<all_listings, search_results, merge_pos, calls, sleeps,
                   unique_listings, urls, listing_details>>
    /\ UNCHANGED flattenVars

\* pyairbnb.get_details has returned a record for DetailUrl.
InitDetail ==
    /\ script \in DetailScripts
    /\ sw_lat_orig = ConfiguredBox.sw_lat
    /\ sw_long_orig = ConfiguredBox.sw_long
    /\ ne_lat_orig = ConfiguredBox.ne_lat
    /\ ne_long_orig = ConfiguredBox.ne_long
    /\ grid_size = ConfiguredGridSize
    /\ lat_step = Rat(0, 1)
    /\ long_step = Rat(0, 1)
    /\ i = 0
    /\ j = 0
    /\ bounding_boxes = <<>>
    /\ pc = "save"
    /\ error = "none"
    /\ listing = Null
    /\ result = Null
    /\ all_listings = <<>>
    /\ search_results = <<>>
    /\ merge_pos = 0
    /\ calls = 1
    /\ sleeps = 0
    /\ unique_listings = Null
    /\ files = <<>>
    /\ reported = {}
    /\ urls = <<DetailUrl>>
    /\ listing_details \in DetailRecords

NextDetail ==
    \/ SaveAsExcel
    \/ SaveAsLocalFiles

SpecDetail == InitDetail /\ [][NextDetail]_vars

\* The additional sections: the field of the record and the sheet's name.
Sections ==
    {<<"reviews", "Reviews">>, <<"calendar", "Calendar_Pricing">>,
     <<"amenities", "Amenities">>, <<"images", "Photos">>}

\* The sheets of the Excel report.
ReportSheets == {files[DetailExcelFile][n] : n \in 1..Len(files[DetailExcelFile])}

\* C18: after an export that reported no error, each additional section is
\* in the Excel report exactly if its field of the record is present and
\* non-empty.
C18_SectionIffFieldNonEmpty ==
    (pc = "saved" /\ reported = {}) =>
        /\ DetailExcelFile \in DOMAIN files
        /\ \A sec \in Sections :
              sec[2] \in ReportSheets <=> Present(listing_details, sec[1])

\* -------------------------------------------------------- the bulk scripts
\* scrape_bulk_listings.py 99-171; scrape_bulk_listings_json.py 11-103.

\* The input file has at most MaxLines lines.
MaxLines == 2

BulkScripts == {"scrape_bulk_listings", "scrape_bulk_listings_json"}

\* args.file (the USAGE line of both scripts)
ArgsFile == "listings.txt"

\* The lines the input file is made of.
Lines ==
    {"\n", "  \n", "https://www.airbnb.com/rooms/12\n",
     "  https://www.airbnb.com/rooms/34 \n", "https://www.airbnb.com/s/homes\n"}

\* line.strip()
Strip(line) ==
    CASE line = "\n" -> ""
      [] line = "  \n" -> ""
      [] line = "https://www.airbnb.com/rooms/12\n" -> "https://www.airbnb.com/rooms/12"
      [] line = "  https://www.airbnb.com/rooms/34 \n" -> "https://www.airbnb.com/rooms/34"
      [] line = "https://www.airbnb.com/s/homes\n" -> "https://www.airbnb.com/s/homes"

\* `if line`, without the strip.
NonBlank_Unstripped(line) == line # ""

\* `if line.strip()`
NonBlank(line) == Strip(line) # ""

\* [line.strip() for line in f if line.strip()]
RECURSIVE ReadLines(_)
ReadLines(lines) ==
    IF Len(lines) = 0 THEN <<>>
    ELSE IF NonBlank(Head(lines))
    THEN <<Strip(Head(lines))>> \o ReadLines(Tail(lines))
    ELSE ReadLines(Tail(lines))

\* re.search(r'/rooms/(\d+)', url): group 1, or "" when there is no match.
ListingId(url) ==
    CASE url = "https://www.airbnb.com/rooms/12" -> "12"
      [] url = "https://www.airbnb.com/rooms/34" -> "34"
      [] OTHER -> ""

\* The file name with the 0-based position of the URL.
BulkFile_ZeroBased(index, listing_id, extension) ==
    ToString(index - 1) \o ") " \o listing_id \o extension

\* f"{index}) {listing_id}.xlsx" and f"{index}) {listing_id}.json"
BulkFile(index, listing_id, extension) ==
    ToString(index) \o ") " \o listing_id \o extension

\* The messages (scrape_bulk_listings.py 148, 169, 107, 124, 97).
NoUrlsMessage == "The specified file is empty or contains no valid URLs."

BulkNotFoundError == "Error: The file was not found."

NoIdError == "Error: Could not find a valid listing ID in the URL. Skipping."

ProcessError == "An unexpected error occurred while processing"

BulkExcelError == "Error creating Excel file for"

\* The records pyairbnb.get_details returns in the bulk runs.
BulkDetails ==
    {EmptyDict,
     DictVal([reviews |-> ListVal(<<DictVal([comments |-> StrVal("nice")])>>)]),
     DictVal([calendar |-> ListVal(<<DictVal([days |-> ListVal(<<DictVal(
         [date |-> StrVal("2026-01-01"), price |-> Null])>>)])>>)])}

\* main 143-151 and 168-169: the file is read; a missing file and a file
\* without URLs end the run with a message.
ReadUrls ==
    /\ pc = "read"
    /\ IF ArgsFile \notin DOMAIN files
       THEN /\ reported' = reported \cup {BulkNotFoundError}
            /\ pc' = "done"
            /\ UNCHANGED <<urls, i>>
       ELSE /\ urls' = ReadLines(files[ArgsFile])
            /\ IF Len(ReadLines(files[ArgsFile])) = 0
               THEN /\ reported' = reported \cup {NoUrlsMessage}
                    /\ pc' = "done"
                    /\ UNCHANGED i
               ELSE /\ i' = 1
                    /\ pc' = "process"
                    /\ UNCHANGED reported
    /\ UNCHANGED <<script, sw_lat_orig, sw_long_orig, ne_lat_orig, ne_long_orig,
                   grid_size, lat_step, long_step, j, bounding_boxes, error>>
    /\ UNCHANGED <<all_listings, search_results, merge_pos, calls, sleeps,
                   unique_listings, files, listing_details>>
    /\ UNCHANGED flattenVars

\* process_url(url, i) of scrape_bulk_listings.py (99-125) and
\* process_url_to_json(url, i) of scrape_bulk_listings_json.py (11-58) once
\* the URL has a listing id: the detail call and the export, in one try.
Scrape(url) ==
    /\ calls' = calls + 1
    /\ \/ /\ reported' = reported \cup {ProcessError}
          /\ UNCHANGED <<files, listing_details>>
       \/ \E data \in BulkDetails :
             /\ listing_details' = data
             /\ IF script = "scrape_bulk_listings"
                THEN \E outcome \in ExcelOutcomes :
                        /\ files' = ExcelSaved(BulkFile(i, ListingId(url), ".xlsx"),
                                               data, outcome)
                        /\ reported' = (IF ExcelFails(data, outcome)
                                        THEN reported \cup {BulkExcelError}
                                        ELSE reported)
                ELSE \E outcome \in WriteOutcomes :
                        /\ files' = Written(BulkFile(i, ListingId(url), ".json"),
                                            Dump(data), outcome)
                        /\ reported' = (IF outcome = "written" THEN reported
                                        ELSE reported \cup {ProcessError})

\* One pass of `for i, url in enumerate(urls, 1)` (main 154-164): the URL
\* is processed, then the pause unless it was the last URL.
ProcessUrl ==
    /\ pc = "process"
    /\ i <= Len(urls)
    /\ IF ListingId(urls[i]) = ""
       THEN /\ reported' = reported \cup {NoIdError}
            /\ UNCHANGED <<calls, files, listing_details>>
       ELSE Scrape(urls[i])
    /\ sleeps' = (IF i < Len(urls) THEN sleeps + 1 ELSE sleeps)
    /\ i' = i + 1
    /\ pc' = (IF i < Len(urls) THEN "process" ELSE "done")
    /\ UNCHANGED <<script, sw_lat_orig, sw_long_orig, ne_lat_orig, ne_long_orig,
                   grid_size, lat_step, long_step, j, bounding_boxes, error>>
    /\ UNCHANGED <<all_listings, search_results, merge_pos, unique_listings, urls>>
    /\ UNCHANGED flattenVars

\* What the bulk scripts find under args.file: nothing, or up to MaxLines
\* lines.
BulkInputs == {<<>>} \cup {[f \in {ArgsFile} |-> ls] : ls \in SeqsUpTo(Lines, MaxLines)}

InitBulk ==
    /\ script \in BulkScripts
    /\ sw_lat_orig = ConfiguredBox.sw_lat
    /\ sw_long_orig = ConfiguredBox.sw_long
    /\ ne_lat_orig = ConfiguredBox.ne_lat
    /\ ne_long_orig = ConfiguredBox.ne_long
    /\ grid_size = ConfiguredGridSize
    /\ lat_step = Rat(0, 1)
    /\ long_step = Rat(0, 1)
    /\ i = 0
    /\ j = 0
    /\ bounding_boxes = <<>>
    /\ pc = "read"
    /\ error = "none"
    /\ listing = Null
    /\ result = Null
    /\ all_listings = <<>>
    /\ search_results = <<>>
    /\ merge_pos = 0
    /\ calls = 0
    /\ sleeps = 0
    /\ unique_listings = Null
    /\ files \in BulkInputs
    /\ reported = {}
    /\ urls = <<>>
    /\ listing_details = Null

NextBulk ==
    \/ ReadUrls
    \/ ProcessUrl

SpecBulk == InitBulk /\ [][NextBulk]_vars

\* The input file is missing, or none of its lines has a non-blank character.
ConfigurationError ==
    \/ ArgsFile \notin DOMAIN files
    \/ \A n \in 1..Len(files[ArgsFile]) : files[ArgsFile][n] \in {"\n", "  \n"}

\* C17: a run of a bulk script whose input file is missing or has no
\* non-blank line goes from its start straight to its end, with the one
\* message of its case, with no URL in its list, no detail call, no pause
\* and no file written.
C17_ConfigurationErrorEndsRun ==
    ConfigurationError =>
        /\ pc \in {"read", "done"}
        /\ urls = <<>>
        /\ calls = 0
        /\ sleeps = 0
        /\ DOMAIN files \subseteq {ArgsFile}
        /\ pc = "read" => reported = {}
        /\ pc = "done" =>
              reported = {IF ArgsFile \notin DOMAIN files
                          THEN BulkNotFoundError ELSE NoUrlsMessage}

\* A run on a file of two blank lines has ended.
C17_Witness ==
    /\ pc = "done"
    /\ ArgsFile \in DOMAIN files
    /\ Len(files[ArgsFile]) = 2
    /\ ConfigurationError
    /\ reported = {NoUrlsMessage}

\* The lines of the input file that have a non-blank character, in file order.
NonBlankLines == SelectSeq(files[ArgsFile], LAMBDA line : line \notin {"\n", "  \n"})

\* The URL has '/rooms/<digits>' in it.
HasRoomsId(url) ==
    url \in {"https://www.airbnb.com/rooms/12", "https://www.airbnb.com/rooms/34"}

\* The output file of the URL at 1-based position pos of the list.
OutputName(pos) ==
    ToString(pos) \o ") " \o ListingId(urls[pos])
        \o (IF script = "scrape_bulk_listings" THEN ".xlsx" ELSE ".json")

\* The loop is about to process the URL at position i.
ProcessingUrl == pc = "process"

\* The list of URLs is the non-blank lines of the file, stripped, in file
\* order.
UrlsInFileOrder ==
    (pc # "read" /\ ArgsFile \in DOMAIN files) =>
        /\ Len(urls) = Len(NonBlankLines)
        /\ \A n \in 1..Len(urls) : urls[n] = Strip(NonBlankLines[n])

\* What one pass of the loop does with the URL at position i.
UrlProcessedAtItsPosition ==
    /\ i' = i + 1
    /\ urls' = urls
    /\ calls' = calls + (IF HasRoomsId(urls[i]) THEN 1 ELSE 0)
    /\ sleeps' = sleeps + (IF i < Len(urls) THEN 1 ELSE 0)
    /\ DOMAIN files' \subseteq
           DOMAIN files \cup (IF HasRoomsId(urls[i]) THEN {OutputName(i)} ELSE {})
    /\ \A f \in DOMAIN files \ {OutputName(i)} : files'[f] = files[f]
    /\ pc' = (IF i < Len(urls) THEN "process" ELSE "done")

\* C21: in the bulk scripts the list of URLs is the file's non-blank lines in
\* file order; the loop processes the URL at position 1, then 2, and so on to
\* the last, each once and with its 1-based position as index, whatever
\* happened to the earlier URLs; a URL without '/rooms/<digits>' makes no
\* detail call and no output file; a pause follows every URL but the last, so
\* a run over n >= 1 URLs ends after exactly n - 1 pauses.
C21_EveryUrlOnceInOrder ==
    /\ [](UrlsInFileOrder)
    /\ [](ProcessingUrl => (i \in 1..Len(urls) /\ sleeps = i - 1))
    /\ []((pc = "done" /\ urls # <<>>) =>
              (i = Len(urls) + 1 /\ sleeps = Len(urls) - 1))
    /\ [][ProcessingUrl => UrlProcessedAtItsPosition]_vars

\* A run over two URLs has ended: the first had no listing id, the second was
\* scraped and its report was written under index 2, after one pause.
C21_Witness ==
    /\ pc = "done"
    /\ Len(urls) = 2
    /\ ~HasRoomsId(urls[1])
    /\ HasRoomsId(urls[2])
    /\ calls = 1
    /\ sleeps = 1
    /\ DOMAIN files = {ArgsFile, OutputName(2)}

\* ------------------------------------------------- a run of get_listings.py
\* get_listings.main 97-182, from the grid to the final message.

\* The run starts in a directory without output files, or with the three
\* files of an earlier run that found one listing.
InitGetListings ==
    /\ script = "get_listings"
    /\ sw_lat_orig = ConfiguredBox.sw_lat
    /\ sw_long_orig = ConfiguredBox.sw_long
    /\ ne_lat_orig = ConfiguredBox.ne_lat
    /\ ne_long_orig = ConfiguredBox.ne_long
    /\ grid_size \in SearchGridSizes
    /\ lat_step = Rat(0, 1)
    /\ long_step = Rat(0, 1)
    /\ i = 0
    /\ j = 0
    /\ bounding_boxes = <<>>
    /\ pc = "start"
    /\ error = "none"
    /\ listing = Null
    /\ result = Null
    /\ all_listings = <<>>
    /\ search_results = <<>>
    /\ merge_pos = 0
    /\ calls = 0
    /\ sleeps = 0
    /\ unique_listings = Null
    /\ LET earlier == <<DictVal([room_id |-> IntVal(1), name |-> StrVal("a")])>>
       IN  files \in {<<>>,
                      [f \in {JsonFile, UrlsFile, ExcelFile} |->
                          CASE f = JsonFile  -> Dump(ListVal(earlier))
                            [] f = UrlsFile  -> UrlLines(earlier)
                            [] f = ExcelFile -> ProcessedData(earlier)]}
    /\ reported = {}
    /\ urls = <<>>
    /\ listing_details = Null

NextGetListings ==
    \/ ComputeSteps /\ UNCHANGED <<flattenVars, runVars>>
    \/ ComputeStepsFails /\ UNCHANGED <<flattenVars, runVars>>
    \/ AppendCell /\ UNCHANGED <<flattenVars, runVars>>
    \/ FinishGrid /\ UNCHANGED <<flattenVars, runVars>>
    \/ StartSearch
    \/ SearchAllReturns
    \/ SearchAllRaises
    \/ MergeListing
    \/ MergeRaises
    \/ EndOfResults
    \/ EndOfBoxes
    \/ ExportJson
    \/ ExportUrls
    \/ ExportExcel

\* The script is one sequential task: its next statement is executed, every
\* external call returns or raises and every pause ends.  (Every step of the
\* script changes its position <<pc, i, j, merge_pos>>.)
SpecGetListings ==
    /\ InitGetListings
    /\ [][NextGetListings]_vars
    /\ WF_<<pc, i, j, merge_pos>>(NextGetListings)

\* The step in which pyairbnb.search_all is called.
SearchCalled == calls' # calls

\* The grid was computed: the configured grid size is not 0.
GridComputed == grid_size # 0

\* C22: a run of get_listings.main whose grid is computed ends at its final
\* step without an uncaught error, whichever search calls and whichever of the
\* three exports fail; the k-th search call is the call for the k-th box, and
\* when the loop is over each box has been queried once.
C22_RunsToCompletion ==
    /\ [](GridComputed => (pc # "crashed" /\ error = "none"))
    /\ [][SearchCalled =>
             /\ pc = "search"
             /\ i < Len(bounding_boxes)
             /\ calls = i
             /\ calls' = calls + 1]_vars
    /\ [](LoopOver => (i = Len(bounding_boxes) /\ calls = Len(bounding_boxes)))
    /\ (GridComputed ~> (pc = "done"))

\* The run over four boxes has ended although the call for the second box
\* and all three exports failed.
C22_Witness ==
    /\ pc = "done"
    /\ error = "none"
    /\ Len(bounding_boxes) = 4
    /\ calls = 4
    /\ reported = {"An error occurred while searching area Area_1_2: ExternalSourceError",
                   JsonError, UrlsError, ExcelError}

\* The de-duplicated collection is empty.
EmptyCollection == unique_listings = ListVal(<<>>)

\* json.dump([], f, indent=4) writes "[]".
EmptyListText == <<Tok("["), Tok("]")>>

\* The step at pc = step has tried to write its file: the file holds `rows`
\* items written by this step, or the step's error message was printed.
Attempted(name, rows, message) ==
    \/ message \in reported'
    \/ name \in DOMAIN files' /\ Len(files'[name]) = rows

\* The raw JSON export of get_listings.main.
JsonStep ==
    pc = "export_json" =>
        /\ pc' = "export_urls"
        /\ JsonError \in reported' \/ (JsonFile \in DOMAIN files'
                                       /\ Load(files'[JsonFile]) = unique_listings)
        /\ (EmptyCollection /\ JsonError \notin reported')
               => files'[JsonFile] = EmptyListText

\* The URL list export: one line per record.
UrlsStep ==
    pc = "export_urls" =>
        /\ pc' = "export_excel"
        /\ Attempted(UrlsFile, Len(unique_listings.v), UrlsError)
        /\ (EmptyCollection /\ UrlsError \notin reported') => files'[UrlsFile] = <<>>

\* The Excel export: one row per record, and nothing for an empty collection.
ExcelStep ==
    pc = "export_excel" =>
        /\ pc' = "done"
        /\ IF EmptyCollection
           THEN files' = files /\ reported' = reported
           ELSE Attempted(ExcelFile, Len(unique_listings.v), ExcelError)

\* The search of get_listings.main is over.
MainExporting == script = "get_listings" /\ ExportStep

\* C23: in get_listings.main the exports run in the order JSON, URL list,
\* Excel.  With an empty collection the JSON export writes an empty list and
\* the URL export an empty file, each in place of any earlier content (unless
\* the write itself fails), and the Excel export does nothing: no file is
\* touched and no message printed.  With a non-empty collection each of the
\* three exports writes its file or prints its error message.
C23_ExportsByCollection ==
    [][MainExporting => (JsonStep /\ UrlsStep /\ ExcelStep /\ OtherFilesUntouched)]_vars

\* Every call of a run over four boxes failed; the run ended with an empty
\* list and an empty URL file in place of the earlier ones, and with the
\* Excel file of the earlier run.
C23_Witness ==
    /\ pc = "done"
    /\ script = "get_listings"
    /\ calls = 4
    /\ Cardinality(reported) = 4
    /\ EmptyCollection
    /\ DOMAIN files = {JsonFile, UrlsFile, ExcelFile}
    /\ files[JsonFile] = EmptyListText
    /\ files[UrlsFile] = <<>>
    /\ Len(files[ExcelFile]) = 1

====
